---- MODULE Spec2Model ----
(***************************************************************************)
(* S0PCM2MQTT: the serial reader (S0_serial.py), the telegram decoder      *)
(* (S0_parser.py) and the publish queue they feed (mqtt.py).               *)
(*                                                                         *)
(* A text (a line of the device, the counter prefix) is modelled as the    *)
(* sequence of its colon-separated fields, each field a string; Python     *)
(* lists indexed from 0 are sequences indexed from 1.                      *)
(***************************************************************************)
EXTENDS Integers, Sequences, FiniteSets, TLC

(* ------------------------------ bounds -------------------------------- *)

\* number of lines the input source delivers in one run
MaxLines == 3

\* number of telegrams fed to the decoder in the decoder-only specification
MaxCycles == 3

\* largest raw pulse count in those telegrams
MaxRaw == 2

\* largest number whose decimal rendering the text model knows
MaxNum == 60

\* the per-channel total found in the measurement file at startup
MaxStart == 1

\* the epoch second of the run: what int(time.time()) returns
MaxTs == 1

\* capacity of the publish queue (self.__maxqueuesize, scaled down)
MaxQueue == 2

\* the clock when the process starts, in seconds since the epoch
StartTime == 90

\* seconds by which the clock is seen to advance at a time
ClockStep == 30

\* the clock reading at which the run is cut off
MaxTime == 180

\* number of tuples the other threads hand to do_publish in one run
MaxMsgs == 1

\* number of connectivity probes that fail before the broker is reached
MaxProbes == 1

\* failing probes in a row, enough for the delay to pass its ceiling
MaxFailures == 60

\* telegrams fed to the decoder when the write throttle is followed: one that
\* seeds the previous values and enough changes for two physical writes
MaxTelegrams == 22

\* of these, the first ones may each repeat the vector before or not
MaxFreeCycles == 2

\* number of sessions the broker accepts in one run
MaxConnects == 1

(* ------------------------- program constants -------------------------- *)

\* range(1, 6): the five inputs M1..M5
NumChannels == 5

\* if self.__write_counter < 10
WriteInterval == 10

\* self.__MQTT_CONNECTION_TIMEOUT = 60, in seconds
MQTT_CONNECTION_TIMEOUT == 60

\* delay = 0.1, in milliseconds
InitialDelay == 100

\* if delay > 3600, in milliseconds
DelayCeiling == 3600000

Channels == 1..NumChannels

\* Python's None (an unmapped input of cfg.S0_DEFINITION)
None == "<None>"

\* Python's True and False where they are passed as the retain argument, whose
\* remembered value starts as None
True == "True"

False == "False"

S0_DEFINITION ==
  [k \in {"M1", "M2", "M3", "M4", "M5"} |->
     CASE k = "M1" -> "jacuzzi"
       [] k = "M3" -> "water"
       [] OTHER -> None]

INFLUXDB == "s0pcm"

MQTT_TOPIC_PREFIX(production) == IF production THEN "s0pcm" ELSE "test_s0pcm"

(* ------------------------------- texts -------------------------------- *)

\* str(n) / f"{n}"
Str(n) == ToString(n)

DigitStrings == {Str(n) : n \in 0..MaxNum}

\* \d+
IsDigits(s) == s \in DigitStrings

\* \d+.* at the end of the pattern: digits, then anything up to the next colon
DigitPrefixed == {Str(n) \o t : n \in 0..MaxNum, t \in {"", "x"}}

StartsWithDigits(s) == s \in DigitPrefixed

\* int(s): the number, or -1 for ValueError
NumberOf == [s \in DigitStrings |-> CHOOSE n \in 0..MaxNum : Str(n) = s]

ToInt(s) == IF IsDigits(s) THEN NumberOf[s] ELSE -1

\* "M" + str(i)
MKey(i) == "M" \o Str(i)

\* re.match(r"^ID:\d+:I:\d+:M1:\d+:\d+:...:M5:\d+:\d+.*", line)
MatchesTelegram(line) ==
  /\ Len(line) >= 4 + 3 * NumChannels
  /\ line[1] = "ID" /\ IsDigits(line[2])
  /\ line[3] = "I" /\ IsDigits(line[4])
  /\ \A i \in Channels :
       /\ line[3 * i + 2] = MKey(i)
       /\ IsDigits(line[3 * i + 3])
       /\ IF i = NumChannels
            THEN StartsWithDigits(line[3 * i + 4])
            ELSE IsDigits(line[3 * i + 4])

\* line.startswith('EOF')
StartsWithEOF(line) == Len(line) >= 1 /\ line[1] \in {"EOF"}

(* ------------------------------ inputs -------------------------------- *)

\* int(time.time()): the run is short against the clock's resolution
Timestamps == {MaxTs}

\* a raw vector of the device: M1 reports a, M2 and M3 report b, M4 is idle
\* and M5 goes down as M1 goes up
Pattern(a, b) ==
  [i \in Channels |->
     CASE i = 1 -> a
       [] i \in {2, 3} -> b
       [] i = 5 -> MaxRaw - a
       [] OTHER -> 0]

\* the raw vectors fed to the decoder in the decoder-only specification
Vectors == {Pattern(a, b) : a \in 0..MaxRaw, b \in {0, MaxRaw}}

ZeroVector == [i \in Channels |-> 0]

RECURSIVE ChannelFields(_, _)
ChannelFields(v, i) ==
  IF i > NumChannels THEN <<>>
  ELSE <<MKey(i), "0", Str(v[i])>> \o ChannelFields(v, i + 1)

\* ID:7:I:10:M1:0:<v1>:M2:0:<v2>:M3:0:<v3>:M4:0:<v4>:M5:0:<v5>
TelegramLine(v) == <<"ID", "7", "I", "10">> \o ChannelFields(v, 1)

\* the same line with characters following the last digit
TrailingLine(v) ==
  [TelegramLine(v) EXCEPT ![4 + 3 * NumChannels] = @ \o "x"]

GarbageLine == <<"GARBAGE">>

EOFLine == <<"EOF">>

\* what the input source delivers
Lines ==
  {TelegramLine(Pattern(0, 0)), TelegramLine(Pattern(MaxRaw, MaxRaw)),
   TrailingLine(ZeroVector), GarbageLine, EOFLine}

(* ------------------------------- dicts -------------------------------- *)

EmptyDict == [k \in {} |-> 0]

\* d[k] = v
Put(d, k, v) == [x \in DOMAIN d \cup {k} |-> IF x = k THEN v ELSE d[x]]

\* d.pop(k), the dict that remains
Pop(d, k) == [x \in DOMAIN d \ {k} |-> d[x]]

(* ------------------------- the measurement file ----------------------- *)

\* Python's None as the value of self.__measurements: what yaml.safe_load
\* returns for an empty document
NoMeasurements == [total |-> EmptyDict, date |-> 0, none |-> TRUE]

IsNone(meas) == "none" \in DOMAIN meas

\* the lines yaml.dump writes for the inputs from i on: "<i>:" and, nested
\* under it, "  total: <n>"; a line is the pair of the texts before and after
\* its colon
RECURSIVE DumpChannels(_, _)
DumpChannels(total, i) ==
  IF i > NumChannels THEN <<>>
  ELSE (IF i \in DOMAIN total
          THEN <<<<Str(i), "">>, <<"  total", Str(total[i])>>>>
          ELSE <<>>) \o DumpChannels(total, i + 1)

\* yaml.dump(self.__measurements, f, default_flow_style=False): the document
\* as its lines, the inputs in ascending order and the date last; None is
\* written as "null" with the end-of-document mark
YamlDump(meas) ==
  IF IsNone(meas) THEN <<<<"null">>, <<"...">>>>
  ELSE DumpChannels(meas.total, 1) \o <<<<"date", Str(meas.date)>>>>

\* a document safe_load rejects: a flow mapping that is never closed
BrokenDocument == <<<<"{">>>>

\* safe_load from line k on, acc being the mapping built so far: an input key
\* with its nested total, the date, and the null document; a document holds
\* these or the open brace that makes the parser raise
RECURSIVE LoadLines(_, _, _)
LoadLines(doc, k, acc) ==
  IF k > Len(doc) THEN [ok |-> TRUE, value |-> acc]
  ELSE IF /\ Len(doc[k]) = 2 /\ IsDigits(doc[k][1]) /\ doc[k][2] = ""
          /\ k < Len(doc)
          /\ Len(doc[k + 1]) = 2 /\ doc[k + 1][1] = "  total"
          /\ IsDigits(doc[k + 1][2])
    THEN LoadLines(doc, k + 2,
                   [acc EXCEPT !.total =
                      Put(@, ToInt(doc[k][1]), ToInt(doc[k + 1][2]))])
  ELSE IF Len(doc[k]) = 2 /\ doc[k][1] = "date" /\ IsDigits(doc[k][2])
    THEN LoadLines(doc, k + 1, [acc EXCEPT !.date = ToInt(doc[k][2])])
  ELSE [ok |-> FALSE, value |-> acc]

\* variant of the load that returns the initial values whatever the document
YamlLoadDefaults(doc) ==
  [ok |-> TRUE,
   value |-> [total |-> [i \in Channels |-> 0], date |-> 0]]

\* yaml.safe_load(f): the dict of the document, None for an empty or a null
\* document, or an exception (ok is FALSE)
YamlLoad(doc) ==
  IF doc = <<>> \/ doc = <<<<"null">>, <<"...">>>>
    THEN [ok |-> TRUE, value |-> NoMeasurements]
    ELSE LoadLines(doc, 1, [total |-> EmptyDict, date |-> 0])

(* ------------------------------ decoder ------------------------------- *)

\* an uncaught exception
Raised == [ok |-> FALSE]

\* a KeyError (or, on None, a TypeError) raised by the update of the totals,
\* with what the loop had assigned before it
RaisedInUpdate(all, acc) ==
  [ok |-> FALSE, all |-> all, prev |-> acc.prev, total |-> acc.total]

\* whether a failed cycle failed in the update of the totals
InUpdate(r) == "total" \in DOMAIN r

\* the loop over the five inputs of __decode_telegram_element:
\* IndexError on a short array, ValueError from int()
RECURSIVE DecodeInputs(_, _, _)
DecodeInputs(s0array, jsonvalues, count) ==
  IF count = 0 THEN [ok |-> TRUE, json |-> jsonvalues]
  ELSE IF Len(s0array) < 3 THEN Raised
  ELSE IF ToInt(s0array[3]) < 0 THEN Raised
  ELSE DecodeInputs(SubSeq(s0array, 4, Len(s0array)),
                    Put(jsonvalues, s0array[1], ToInt(s0array[3])),
                    count - 1)

\* element.split(':'), pop "ID", keep the serial, pop it and "I:<digits>"
DecodeTelegramElement(element, jsonvalues) ==
  IF Len(element) < 4 THEN Raised
  ELSE DecodeInputs(SubSeq(element, 5, Len(element)),
                    Put(jsonvalues, "serial", element[2]),
                    NumChannels)

\* the list [0, M1, .., M5]; list index i is sequence index i + 1
AllValues(json) == <<0>> \o [i \in Channels |-> json[MKey(i)]]

At(list, i) == list[i + 1]

\* variants of the delta: without the power-down branch, with the distance
\* taken in either direction, with the count restarted from zero
DeltaSigned(cur, prev) == cur - prev

DeltaAbsolute(cur, prev) == IF cur >= prev THEN cur - prev ELSE prev - cur

DeltaFromZero(cur, prev) == IF cur >= prev THEN cur - prev ELSE cur

\* delta of one input between two cycles; 0 when the raw counter went down
Delta(cur, prev) == IF cur >= prev THEN cur - prev ELSE 0

\* the previous values after the delta of input i is taken: a raw counter
\* that went down replaces the stored one
PrevAfter(i, all, prev) ==
  IF At(all, i) >= At(prev, i) THEN prev
  ELSE [prev EXCEPT ![i + 1] = At(all, i)]

\* the loop "for i in range(1, 6)" that adds the deltas, from input i on;
\* a missing key raises KeyError, which "except IndexError" does not catch
RECURSIVE AddDeltas(_, _, _, _)
AddDeltas(i, all, prev, total) ==
  IF i > NumChannels THEN [ok |-> TRUE, prev |-> prev, total |-> total]
  ELSE IF i \notin DOMAIN total
    THEN [ok |-> FALSE, prev |-> PrevAfter(i, all, prev), total |-> total]
  ELSE AddDeltas(i + 1, all, PrevAfter(i, all, prev),
                 [total EXCEPT ![i] = @ + Delta(At(all, i), At(prev, i))])

\* json_values["M" + str(i)] = self.__measurements[i]["total"], from input i on
RECURSIVE PutTotals(_, _, _)
PutTotals(i, json, total) ==
  IF i > NumChannels THEN json
  ELSE PutTotals(i + 1, Put(json, MKey(i), total[i]), total)

\* variant of the renaming that leaves the label of an unmapped input
RenameKeepsUnmapped(json, i) ==
  IF S0_DEFINITION[MKey(i)] # None
    THEN Put(Pop(json, MKey(i)), S0_DEFINITION[MKey(i)], json[MKey(i)])
    ELSE json

\* one input's label: renamed when it has a friendly name, removed otherwise
Rename(json, i) ==
  IF S0_DEFINITION[MKey(i)] # None
    THEN Put(Pop(json, MKey(i)), S0_DEFINITION[MKey(i)], json[MKey(i)])
    ELSE Pop(json, MKey(i))

\* replace the Mx labels with the named labels, from input i on
RECURSIVE RenameFrom(_, _)
RenameFrom(i, json) ==
  IF i > NumChannels THEN json ELSE RenameFrom(i + 1, Rename(json, i))

\* variant of the change detection that lets every cycle through
ChangeAlways(all, prev) == TRUE

\* whether the cycle goes on to compute deltas and publish
ChangeDetected(all, prev) == all # prev

\* variant of the initialization that starts the previous values from zero
SeedZeros(all, prev) == IF Len(prev) = 0 THEN [k \in DOMAIN all |-> 0] ELSE prev

\* One-time initialization of the previous-cycle list
SeedPrev(all, prev) == IF Len(prev) = 0 THEN all ELSE prev

\* __decode_telegrams up to the call of __publish_telegram: the cycle's result
\* from the telegram copy, the timestamp and the decoder's state
DecodeTelegrams(tel, now, prev0, meas) ==
  IF Len(tel) < 2 THEN Raised
  ELSE
    LET json0 == [k \in {"timestamp", "counter", "database"} |->
                    CASE k = "timestamp" -> now
                      [] k = "counter" -> tel[1]
                      [] OTHER -> INFLUXDB]
        el == DecodeTelegramElement(tel[2], json0)
    IN IF ~el.ok THEN Raised
       ELSE IF \E i \in Channels : MKey(i) \notin DOMAIN el.json THEN Raised
       ELSE
         LET all == AllValues(el.json)
             prev == SeedPrev(all, prev0)
         IN IF ~ChangeDetected(all, prev)
              THEN [ok |-> TRUE, changed |-> FALSE, all |-> all, prev |-> prev,
                    total |-> meas.total, json |-> el.json]
              ELSE
                LET acc == AddDeltas(1, all, prev, meas.total)
                IN IF ~acc.ok THEN RaisedInUpdate(all, acc)
                   ELSE [ok |-> TRUE, changed |-> TRUE, all |-> all,
                         prev |-> acc.prev, total |-> acc.total,
                         json |-> RenameFrom(1, PutTotals(1, el.json, acc.total))]

(* ------------------------------- state -------------------------------- *)

VARIABLES
  PRODUCTION,        \* cfg.PRODUCTION
  trigger,           \* threading.Event: a telegram is ready for the decoder
  stopper,           \* threading.Event threads_stopper
  telegram,          \* the list shared by reader and decoder
  queue,             \* mqttclient.__queue
  disk,              \* the measurement file: whether it exists, and its content
  pc_r,              \* TaskReadSerial: where the thread is
  counter,           \* TaskReadSerial.__counter
  nread,             \* lines delivered by the input source so far
  pc_d,              \* ParseTelegrams: where the thread is
  tcopy,             \* run: the local copy of the telegram
  all_values,        \* ParseTelegrams.__all_values
  prev_all_values,   \* ParseTelegrams.__prev_all_values
  measurements,      \* ParseTelegrams.__measurements
  write_counter,     \* ParseTelegrams.__write_counter
  json_values,       \* __decode_telegrams: the reading being published
  ts,                \* __decode_telegrams: the cycle's timestamp
  (* history, written but never read by the program's actions *)
  handed,            \* counters of the telegrams handed off, in order
  lastHanded,        \* the telegram handed off last
  taken,             \* counters of the telegrams the decoder copied
  decoded,           \* counters of the telegrams decoded without exception
  events,            \* counters of the readings enqueued
  rawLast,           \* raw vector of the latest decode cycle (<<>>: none)
  rawBefore,         \* raw vector of the cycle before that
  lossLast,          \* inputs whose raw counter went down in the latest cycle
  lossBefore,        \* and in the cycle before that
  startTotal,        \* the totals the decoder started from
  sumDelta,          \* per input, the sum of max(0, raw - previous raw)
  nChanged,          \* cycles in which a change was detected
  nWrites,           \* physical writes of the measurement file attempted
  lastWrite,         \* how the latest physical write ended ("none": no write)
  (* mqttclient, the paho network thread and main *)
  mqtt_stopper,      \* threading.Event mqtt_stopper
  connected_flag,    \* mqttclient.__connected_flag
  disconnect_start_time,  \* mqttclient.__disconnect_start_time
  status_topic,      \* mqttclient.__status_topic
  status_payload,    \* mqttclient.__status_payload
  status_retain,     \* mqttclient.__status_retain
  clock,             \* what int(time.time()) returns
  pc_m,              \* mqttclient.run: where the thread is
  delay,             \* run: the backoff delay, in milliseconds
  item,              \* __do_mqtt: the tuple taken from the queue (<<>>: none)
  session,           \* the paho client: "none", "open" or "closed"
  will,              \* the last will registered with the paho client
  pc_main,           \* main: where the main thread is
  pc_cb,             \* the paho network thread: where a callback is
  cb_msg,            \* __on_connect: the status tuple being enqueued
  pc_p,              \* a thread calling do_publish: where it is
  p_msg,             \* do_publish: the tuple that thread is enqueuing
  (* history of the broker side *)
  nsub,              \* calls of do_publish by that thread so far
  nprobes,           \* run: connectivity probes that failed so far
  waited,            \* run: milliseconds slept between probes so far
  nenq,              \* tuples put into the queue so far
  npub,              \* tuples handed to the paho client so far
  qseq,              \* for each tuple in the queue, its rank among the puts
  itemseq,           \* the rank of the tuple taken from the queue
  onlineAt,          \* the rank of the first "online" status put (0: none)
  offlineAt,         \* the rank of the first "offline" status put (0: none)
  nconnects,         \* connect callbacks with result code 0 so far
  willAtOpen         \* the last will registered when the session was opened

readerVars == <<pc_r, counter, nread>>

decoderVars == <<pc_d, tcopy, all_values, prev_all_values, measurements,
                 write_counter, json_values, ts>>

sharedVars == <<PRODUCTION, trigger, stopper, telegram, queue, disk>>

historyVars == <<handed, lastHanded, taken, decoded, events, rawLast, rawBefore,
                 lossLast, lossBefore, startTotal, sumDelta, nChanged, nWrites>>

\* the state of mqttclient, of the paho network thread and of main
brokerVars == <<mqtt_stopper, connected_flag, disconnect_start_time,
                status_topic, status_payload, status_retain, clock, pc_m, delay,
                item, session, will, pc_main, pc_cb, cb_msg, pc_p, p_msg>>

\* the record of the puts
putHistory == <<nenq, qseq, onlineAt, offlineAt>>

brokerHistory == <<nsub, nprobes, waited, putHistory, npub, itemseq,
                   nconnects, willAtOpen>>

vars == <<sharedVars, readerVars, decoderVars, historyVars, lastWrite,
          brokerVars, brokerHistory>>

brokerHistoryButNsub == <<nprobes, waited, putHistory, npub, itemseq,
                          nconnects, willAtOpen>>

\* the state of reader and decoder but for the stop signal and the queue
workerVars == <<PRODUCTION, trigger, telegram, disk, readerVars, decoderVars,
                historyVars, lastWrite>>

\* the initial values of ParseTelegrams.__measurements
DefaultMeasurements == [total |-> [i \in Channels |-> 0], date |-> 0]

\* a measurement file written by an earlier run
StoredFile ==
  [present |-> TRUE,
   data |-> YamlDump([total |-> [i \in Channels |-> MaxStart], date |-> 0])]

\* no measurement file, or one that cannot be opened
NoFile == [present |-> FALSE, data |-> <<>>]

\* a file opened for writing and left empty by a failed dump
EmptyFile == [present |-> TRUE, data |-> <<>>]

\* the state after construction, whatever the measurement file
InitButDisk ==
  /\ PRODUCTION \in BOOLEAN
  /\ trigger = FALSE
  /\ stopper = FALSE
  /\ telegram = <<>>
  /\ queue = <<>>
  /\ pc_r = "r_loop"
  /\ counter = 0
  /\ nread = 0
  /\ pc_d = "d_start"
  /\ tcopy = <<>>
  /\ all_values = <<>>
  /\ prev_all_values = <<>>
  /\ measurements = DefaultMeasurements
  /\ write_counter = 0
  /\ json_values = EmptyDict
  /\ ts = 0
  /\ handed = <<>>
  /\ lastHanded = <<>>
  /\ taken = <<>>
  /\ decoded = <<>>
  /\ events = <<>>
  /\ rawLast = <<>>
  /\ rawBefore = <<>>
  /\ lossLast = {}
  /\ lossBefore = {}
  /\ startTotal = DefaultMeasurements.total
  /\ sumDelta = [i \in Channels |-> 0]
  /\ nChanged = 0
  /\ nWrites = 0
  /\ lastWrite = "none"
  /\ mqtt_stopper = FALSE
  /\ connected_flag = FALSE
  /\ disconnect_start_time = 0
  /\ status_topic = None
  /\ status_payload = None
  /\ status_retain = None
  /\ clock = StartTime
  /\ pc_m = "m_new"
  /\ delay = InitialDelay
  /\ item = <<>>
  /\ session = "none"
  /\ will = None
  /\ pc_main = "main_will"
  /\ pc_cb = "cb_idle"
  /\ cb_msg = <<>>
  /\ pc_p = "p_idle"
  /\ p_msg = <<>>
  /\ nsub = 0
  /\ nprobes = 0
  /\ waited = 0
  /\ nenq = 0
  /\ npub = 0
  /\ qseq = <<>>
  /\ itemseq = 0
  /\ onlineAt = 0
  /\ offlineAt = 0
  /\ nconnects = 0
  /\ willAtOpen = None

\* the process starts without a measurement file or with one an earlier run
\* wrote
Init == InitButDisk /\ disk \in {NoFile, StoredFile}

(* ------------------------ TaskReadSerial thread ----------------------- *)

\* variant of the reader that does not wait for the decoder
NeverBlocks == FALSE

\* while self.__trigger.is_set(): time.sleep(0.1)
TriggerBlocksReader == trigger

\* variant of the reader that does not advance its counter
SameCounter(c) == c

\* self.__counter += 1
NextCounter(c) == c + 1

\* while not self.__stopper.is_set()
ReaderLoop ==
  /\ pc_r = "r_loop"
  /\ pc_r' = IF stopper THEN "r_finally" ELSE "r_wait"
  /\ UNCHANGED <<sharedVars, counter, nread, decoderVars, historyVars>>
  /\ UNCHANGED <<lastWrite, brokerVars, brokerHistory>>

\* wait till parser has copied telegram content
ReaderWait ==
  /\ pc_r = "r_wait"
  /\ ~TriggerBlocksReader
  /\ pc_r' = "r_append"
  /\ UNCHANGED <<sharedVars, counter, nread, decoderVars, historyVars>>
  /\ UNCHANGED <<lastWrite, brokerVars, brokerHistory>>

\* add a counter as first field to the list
ReaderAppendCounter ==
  /\ pc_r = "r_append"
  /\ counter' = NextCounter(counter)
  /\ telegram' = Append(telegram, <<Str(counter')>>)
  /\ pc_r' = "r_read"
  /\ UNCHANGED <<PRODUCTION, trigger, stopper, queue, disk, nread,
                 decoderVars, historyVars>>
  /\ UNCHANGED <<lastWrite, brokerVars, brokerHistory>>

\* readline or decode raises: run() logs it and goes to its finally clause
ReaderReadRaises ==
  /\ pc_r = "r_read"
  /\ pc_r' = "r_finally"
  /\ UNCHANGED <<sharedVars, counter, nread, decoderVars, historyVars>>
  /\ UNCHANGED <<lastWrite, brokerVars, brokerHistory>>

\* Only in simulator mode; detect EOF in file
IsEOF(line) == ~PRODUCTION /\ StartsWithEOF(line)

\* line = self.__tty.readline().decode('utf-8').rstrip(): EOF in the file
ReaderEOF ==
  /\ pc_r = "r_read"
  /\ nread < MaxLines
  /\ \E line \in Lines : IsEOF(line)
  /\ nread' = nread + 1
  /\ stopper' = TRUE
  /\ pc_r' = "r_finally"
  /\ UNCHANGED <<PRODUCTION, trigger, telegram, queue, disk, counter,
                 decoderVars, historyVars>>
  /\ UNCHANGED <<lastWrite, brokerVars, brokerHistory>>

\* variant of the validation that keeps the partial telegram
KeptOnMismatch(t) == t

\* self.__telegram.clear() after the warning
ClearedOnMismatch(t) == <<>>

\* the line read fails the input validation: clear the telegram, continue
ReaderMismatch ==
  /\ pc_r = "r_read"
  /\ nread < MaxLines
  /\ \E line \in Lines : ~IsEOF(line) /\ ~MatchesTelegram(line)
  /\ nread' = nread + 1
  /\ telegram' = ClearedOnMismatch(telegram)
  /\ pc_r' = "r_loop"
  /\ UNCHANGED <<PRODUCTION, trigger, stopper, queue, disk, counter,
                 decoderVars, historyVars>>
  /\ UNCHANGED <<lastWrite, brokerVars, brokerHistory>>

\* the line read passes the validation: self.__telegram.append(f"{line}")
ReaderAppendLine ==
  /\ pc_r = "r_read"
  /\ nread < MaxLines
  /\ \E line \in Lines :
       /\ ~IsEOF(line)
       /\ MatchesTelegram(line)
       /\ telegram' = Append(telegram, line)
  /\ nread' = nread + 1
  /\ pc_r' = "r_trigger"
  /\ UNCHANGED <<PRODUCTION, trigger, stopper, queue, disk, counter,
                 decoderVars, historyVars>>
  /\ UNCHANGED <<lastWrite, brokerVars, brokerHistory>>

\* Trigger that new telegram is available
ReaderTrigger ==
  /\ pc_r = "r_trigger"
  /\ trigger' = TRUE
  /\ pc_r' = "r_loop"
  /\ handed' = Append(handed, ToInt(telegram[1][1]))
  /\ lastHanded' = telegram
  /\ UNCHANGED <<PRODUCTION, stopper, telegram, queue, disk, counter,
                 nread, decoderVars, taken, decoded, events, rawLast, rawBefore,
                 lossLast, lossBefore, startTotal, sumDelta, nChanged, nWrites>>
  /\ UNCHANGED <<lastWrite, brokerVars, brokerHistory>>

\* variant of run() whose finally clause only closes the input
ReaderCloses ==
  /\ pc_r = "r_finally"
  /\ pc_r' = "r_done"
  /\ UNCHANGED <<sharedVars, counter, nread, decoderVars, historyVars>>
  /\ UNCHANGED <<lastWrite, brokerVars, brokerHistory>>

\* run(): finally: self.__tty.close(); self.__stopper.set()
ReaderFinally ==
  /\ pc_r = "r_finally"
  /\ stopper' = TRUE
  /\ pc_r' = "r_done"
  /\ UNCHANGED <<PRODUCTION, trigger, telegram, queue, disk, counter,
                 nread, decoderVars, historyVars>>
  /\ UNCHANGED <<lastWrite, brokerVars, brokerHistory>>

Reader ==
  \/ ReaderLoop
  \/ ReaderWait
  \/ ReaderAppendCounter
  \/ ReaderReadRaises
  \/ ReaderEOF
  \/ ReaderMismatch
  \/ ReaderAppendLine
  \/ ReaderTrigger
  \/ ReaderFinally

(* ------------------------ ParseTelegrams thread ----------------------- *)

Max(a, b) == IF a >= b THEN a ELSE b

\* the raw vector M1..M5 of a list [0, M1, .., M5]
RawOf(all) == [i \in Channels |-> At(all, i)]

\* variant of the read that leaves None when open() or safe_load() raises
ReadOrNone(file, current) ==
  IF file.present /\ YamlLoad(file.data).ok
    THEN YamlLoad(file.data).value
    ELSE NoMeasurements

\* what __read_measurements leaves in self.__measurements: what safe_load
\* returns for the file, or the present values when open() or safe_load()
\* raises
ReadMeasurements(file, current) ==
  IF file.present /\ YamlLoad(file.data).ok
    THEN YamlLoad(file.data).value
    ELSE current

\* what the open()/yaml.dump of __write_measurements may leave on disk:
\* the dump, the old file (open raised) or an empty file (dump raised)
WriteOutcomes(file, meas) ==
  {[present |-> TRUE, data |-> YamlDump(meas)], file, EmptyFile}

\* the ways a physical write ends
WriteEnds == {"dumped", "open_raised", "dump_raised"}

\* the file a physical write leaves, by the way it ends
WriteResult(end, file, meas) ==
  CASE end = "dumped" -> [present |-> TRUE, data |-> YamlDump(meas)]
    [] end = "open_raised" -> file
    [] OTHER -> EmptyFile

\* variant of the write that falls back to the defaults when it fails
MemoryResetByFailure(end, meas) ==
  IF end = "dumped" THEN meas ELSE DefaultMeasurements

\* self.__measurements after the physical write: yaml.dump only reads it, and
\* the except clause only logs
MemoryAfterWrite(end, meas) == meas

\* __write_measurements(throttle=False): whether the call goes on to the
\* physical write, whatever the write counter
FinalWrites(wc) == TRUE

\* variant of the throttle that lets one more change pass before it writes
ThrottleWritesLate(wc) == wc >= WriteInterval

\* if throttle: whether this call goes on to the physical write
ThrottleWrites(wc) == wc + 1 >= WriteInterval

\* the (topic, message, retain) tuple __publish_telegram hands to do_publish
ReadingMessage(json) ==
  [topic |-> MQTT_TOPIC_PREFIX(PRODUCTION), message |-> json, retain |-> False]

\* cfg.MQTT_TOPIC_PREFIX + "/status"
StatusTopic == MQTT_TOPIC_PREFIX(PRODUCTION) \o "/status"

\* the record of a put of msg
PutRecorded(msg) ==
  /\ nenq' = nenq + 1
  /\ qseq' = Append(qseq, nenq')
  /\ onlineAt' = IF onlineAt = 0 /\ msg.topic = StatusTopic
                                 /\ msg.message = "online"
                   THEN nenq' ELSE onlineAt
  /\ offlineAt' = IF offlineAt = 0 /\ msg.topic = StatusTopic
                                   /\ msg.message = "offline"
                    THEN nenq' ELSE offlineAt

\* run(): self.__read_measurements()
DecoderStart ==
  /\ pc_d = "d_start"
  /\ measurements' = ReadMeasurements(disk, measurements)
  /\ startTotal' = measurements'.total
  /\ pc_d' = "d_loop"
  /\ UNCHANGED <<sharedVars, readerVars, tcopy, all_values, prev_all_values,
                 write_counter, json_values, ts, handed, lastHanded, taken,
                 decoded, events, rawLast, rawBefore, lossLast, lossBefore,
                 sumDelta, nChanged, nWrites>>
  /\ UNCHANGED <<lastWrite, brokerVars, brokerHistory>>

\* while not self.__stopper.is_set()
DecoderLoop ==
  /\ pc_d = "d_loop"
  /\ pc_d' = IF stopper THEN "d_final" ELSE "d_wait"
  /\ UNCHANGED <<sharedVars, readerVars, tcopy, all_values, prev_all_values,
                 measurements, write_counter, json_values, ts, historyVars>>
  /\ UNCHANGED <<lastWrite, brokerVars, brokerHistory>>

\* self.__trigger.wait(timeout=1); if self.__trigger.is_set()
DecoderWait ==
  /\ pc_d = "d_wait"
  /\ pc_d' = IF trigger THEN "d_copy" ELSE "d_loop"
  /\ UNCHANGED <<sharedVars, readerVars, tcopy, all_values, prev_all_values,
                 measurements, write_counter, json_values, ts, historyVars>>
  /\ UNCHANGED <<lastWrite, brokerVars, brokerHistory>>

\* telegram = copy.deepcopy(self.__telegram)
DecoderCopy ==
  /\ pc_d = "d_copy"
  /\ tcopy' = telegram
  /\ taken' = Append(taken, IF Len(telegram) > 0 THEN ToInt(telegram[1][1]) ELSE -1)
  /\ pc_d' = "d_clear"
  /\ UNCHANGED <<sharedVars, readerVars, all_values, prev_all_values,
                 measurements, write_counter, json_values, ts, handed,
                 lastHanded, decoded, events, rawLast, rawBefore, lossLast,
                 lossBefore, startTotal, sumDelta, nChanged, nWrites>>
  /\ UNCHANGED <<lastWrite, brokerVars, brokerHistory>>

\* self.__telegram.clear()
DecoderClearTelegram ==
  /\ pc_d = "d_clear"
  /\ telegram' = <<>>
  /\ pc_d' = "d_trigger"
  /\ UNCHANGED <<PRODUCTION, trigger, stopper, queue, disk, readerVars, tcopy,
                 all_values, prev_all_values, measurements, write_counter,
                 json_values, ts, historyVars>>
  /\ UNCHANGED <<lastWrite, brokerVars, brokerHistory>>

\* self.__trigger.clear()
DecoderClearTrigger ==
  /\ pc_d = "d_trigger"
  /\ trigger' = FALSE
  /\ pc_d' = "d_decode"
  /\ UNCHANGED <<PRODUCTION, stopper, telegram, queue, disk, readerVars, tcopy,
                 all_values, prev_all_values, measurements, write_counter,
                 json_values, ts, historyVars>>
  /\ UNCHANGED <<lastWrite, brokerVars, brokerHistory>>

\* the history of a decode cycle that raised nothing
CycleHistory(all) ==
  /\ decoded' = Append(decoded, ToInt(tcopy[1][1]))
  /\ rawBefore' = rawLast
  /\ rawLast' = RawOf(all)
  /\ lossBefore' = lossLast
  /\ lossLast' = {i \in Channels : rawLast # <<>> /\ At(all, i) < rawLast[i]}
  /\ sumDelta' = [i \in Channels |->
                    sumDelta[i] + IF rawLast = <<>> THEN 0
                                  ELSE Max(0, At(all, i) - rawLast[i])]

\* __decode_telegrams: no change against the previous cycle (or first cycle)
DecoderDecodeUnchanged ==
  /\ pc_d = "d_decode"
  /\ \E now \in Timestamps :
       LET r == DecodeTelegrams(tcopy, now, prev_all_values, measurements)
       IN /\ r.ok
          /\ ~r.changed
          /\ all_values' = r.all
          /\ prev_all_values' = r.prev
          /\ CycleHistory(r.all)
  /\ tcopy' = <<>>
  /\ pc_d' = "d_loop"
  /\ UNCHANGED <<sharedVars, readerVars, measurements, write_counter,
                 json_values, ts, handed, lastHanded, taken, events,
                 startTotal, nChanged, nWrites>>
  /\ UNCHANGED <<lastWrite, brokerVars, brokerHistory>>

\* __decode_telegrams: change detected, up to the call of __publish_telegram
DecoderDecodeChanged ==
  /\ pc_d = "d_decode"
  /\ \E now \in Timestamps :
       LET r == DecodeTelegrams(tcopy, now, prev_all_values, measurements)
       IN /\ r.ok
          /\ r.changed
          /\ all_values' = r.all
          /\ prev_all_values' = r.prev
          /\ measurements' = [measurements EXCEPT !.total = r.total]
          /\ json_values' = r.json
          /\ ts' = now
          /\ CycleHistory(r.all)
  /\ nChanged' = nChanged + 1
  /\ tcopy' = <<>>
  /\ pc_d' = "d_publish"
  /\ UNCHANGED <<sharedVars, readerVars, write_counter, handed, lastHanded,
                 taken, events, startTotal, nWrites>>
  /\ UNCHANGED <<lastWrite, brokerVars, brokerHistory>>

\* __decode_telegrams raises while it reads the telegram (IndexError,
\* ValueError), after it has reset self.__all_values to [0]: nothing in run()
\* catches it and the thread ends
DecoderRaises ==
  /\ pc_d = "d_decode"
  /\ \A now \in Timestamps :
       LET r == DecodeTelegrams(tcopy, now, prev_all_values, measurements)
       IN ~r.ok /\ ~InUpdate(r)
  /\ all_values' = IF Len(tcopy) = 0 THEN all_values ELSE <<0>>
  /\ pc_d' = "d_crashed"
  /\ UNCHANGED <<sharedVars, readerVars, tcopy, prev_all_values,
                 measurements, write_counter, json_values, ts, historyVars>>
  /\ UNCHANGED <<lastWrite, brokerVars, brokerHistory>>

\* __decode_telegrams raises in the update of the totals: the dict loaded from
\* the file has no entry for an input (KeyError, which "except IndexError"
\* does not catch) or is None (TypeError); the inputs before it are updated,
\* nothing in run() catches it and the thread ends
DecoderUpdateRaises ==
  /\ pc_d = "d_decode"
  /\ \E now \in Timestamps :
       LET r == DecodeTelegrams(tcopy, now, prev_all_values, measurements)
       IN /\ ~r.ok
          /\ InUpdate(r)
          /\ all_values' = r.all
          /\ prev_all_values' = r.prev
          /\ measurements' = [measurements EXCEPT !.total = r.total]
  /\ pc_d' = "d_crashed"
  /\ UNCHANGED <<sharedVars, readerVars, tcopy, write_counter, json_values, ts,
                 historyVars>>
  /\ UNCHANGED <<lastWrite, brokerVars, brokerHistory>>

\* __publish_telegram (a blocking queue.put), the date, the throttled write
\* and the copy of the current values to the previous ones
DecoderPublish ==
  /\ pc_d = "d_publish"
  /\ Len(queue) < MaxQueue
  /\ queue' = Append(queue, ReadingMessage(json_values))
  /\ events' = Append(events, ToInt(json_values["counter"][1]))
  /\ IF ThrottleWrites(write_counter)
       THEN /\ write_counter' = 0
            /\ \E end \in WriteEnds :
                 /\ measurements' =
                      MemoryAfterWrite(end, [measurements EXCEPT !.date = ts])
                 /\ disk' =
                      WriteResult(end, disk, [measurements EXCEPT !.date = ts])
                 /\ lastWrite' = end
            /\ disk' \in WriteOutcomes(disk, [measurements EXCEPT !.date = ts])
            /\ nWrites' = nWrites + 1
       ELSE /\ measurements' = [measurements EXCEPT !.date = ts]
            /\ write_counter' = write_counter + 1
            /\ UNCHANGED <<disk, nWrites, lastWrite>>
  /\ prev_all_values' = all_values
  /\ json_values' = EmptyDict
  /\ ts' = 0
  /\ pc_d' = "d_loop"
  /\ PutRecorded(ReadingMessage(json_values))
  /\ UNCHANGED <<PRODUCTION, trigger, stopper, telegram, readerVars, tcopy,
                 all_values, handed, lastHanded, taken, decoded, rawLast,
                 rawBefore, lossLast, lossBefore, startTotal, sumDelta, nChanged>>
  /\ UNCHANGED <<brokerVars, nsub, nprobes, waited, npub, itemseq, nconnects,
                 willAtOpen>>

\* run(): write measurements when closing
DecoderFinalWrite ==
  /\ pc_d = "d_final"
  /\ IF FinalWrites(write_counter)
       THEN /\ \E end \in WriteEnds :
                 /\ measurements' = MemoryAfterWrite(end, measurements)
                 /\ disk' = WriteResult(end, disk, measurements)
                 /\ lastWrite' = end
            /\ disk' \in WriteOutcomes(disk, measurements)
            /\ nWrites' = nWrites + 1
       ELSE UNCHANGED <<measurements, disk, nWrites, lastWrite>>
  /\ pc_d' = "d_done"
  /\ UNCHANGED <<PRODUCTION, trigger, stopper, telegram, queue, readerVars,
                 tcopy, all_values, prev_all_values,
                 write_counter, json_values, ts, handed, lastHanded, taken,
                 decoded, events, rawLast, rawBefore, lossLast, lossBefore,
                 startTotal, sumDelta, nChanged>>
  /\ UNCHANGED <<brokerVars, brokerHistory>>

Decoder ==
  \/ DecoderStart
  \/ DecoderLoop
  \/ DecoderWait
  \/ DecoderCopy
  \/ DecoderClearTelegram
  \/ DecoderClearTrigger
  \/ DecoderDecodeUnchanged
  \/ DecoderDecodeChanged
  \/ DecoderRaises
  \/ DecoderPublish
  \/ DecoderFinalWrite

(* ---------------------------- environment ----------------------------- *)

\* exit_gracefully: SIGINT or SIGTERM sets threads_stopper
SignalStop ==
  /\ ~stopper
  /\ stopper' = TRUE
  /\ UNCHANGED <<PRODUCTION, trigger, telegram, queue, disk, readerVars,
                 decoderVars, historyVars>>
  /\ UNCHANGED <<lastWrite, brokerVars, brokerHistory>>

\* __do_mqtt: self.__queue.get(block=True, timeout=1) takes the oldest message
QueueGet ==
  /\ Len(queue) > 0
  /\ queue' = Tail(queue)
  /\ qseq' = Tail(qseq)
  /\ UNCHANGED <<PRODUCTION, trigger, stopper, telegram, disk, readerVars,
                 decoderVars, historyVars>>
  /\ UNCHANGED <<lastWrite, brokerVars, nsub, nprobes, waited, nenq, onlineAt,
                 offlineAt, npub, itemseq, nconnects, willAtOpen>>

Next == Reader \/ Decoder \/ SignalStop \/ QueueGet

Spec == Init /\ [][Next]_vars

\* the steps of the decoder thread around the call of __decode_telegrams
DecoderMoves ==
  \/ DecoderStart
  \/ DecoderLoop
  \/ DecoderWait
  \/ DecoderCopy
  \/ DecoderClearTelegram
  \/ DecoderClearTrigger
  \/ DecoderPublish
  \/ DecoderFinalWrite

\* the decoder is not inside __decode_telegrams: the loops of that method are
\* bounded by the telegram and by range(1, 6), so a call returns or raises
DecodeReturns == pc_d # "d_decode"

\* reader and decoder are threads that are scheduled again and again: the
\* sleeps and the timed waits of their loops end, a read of the input
\* returns or raises (the serial port is opened with a timeout), and a call
\* of __decode_telegrams ends
SpecStop ==
  /\ Spec
  /\ WF_vars(Reader)
  /\ WF_vars(DecoderMoves)
  /\ []<>DecodeReturns

(* ---------------------- the decoder on its own ------------------------ *)

\* one pass of the loop of __read_serial that accepts a line, taken while the
\* decoder waits for the trigger: counter, line, trigger
Feed ==
  /\ pc_d = "d_wait"
  /\ ~TriggerBlocksReader
  /\ counter < MaxCycles
  /\ counter' = NextCounter(counter)
  /\ \E v \in Vectors :
       telegram' = telegram \o <<<<Str(counter')>>, TelegramLine(v)>>
  /\ trigger' = TRUE
  /\ handed' = Append(handed, counter')
  /\ lastHanded' = telegram'
  /\ UNCHANGED <<PRODUCTION, stopper, queue, disk, pc_r, nread,
                 decoderVars, taken, decoded, events, rawLast, rawBefore,
                 lossLast, lossBefore, startTotal, sumDelta, nChanged, nWrites>>
  /\ UNCHANGED <<lastWrite, brokerVars, brokerHistory>>

DecodeNext ==
  \/ Feed
  \/ DecoderStart
  \/ DecoderLoop
  \/ DecoderWait
  \/ DecoderCopy
  \/ DecoderClearTelegram
  \/ DecoderClearTrigger
  \/ DecoderDecodeUnchanged
  \/ DecoderDecodeChanged
  \/ DecoderPublish
  \/ QueueGet

\* the configuration as shipped (config.rename.py): production mode
DecodeInit == Init /\ PRODUCTION

SpecDecode == DecodeInit /\ [][DecodeNext]_vars

\* the raw vectors the c-th telegram of a long run may carry: any of two in
\* the first cycles, then the two in turn, so that every cycle is a change
SteadyVectors(c) ==
  IF c <= MaxFreeCycles
    THEN {Pattern(0, 0), Pattern(MaxRaw, 0)}
    ELSE {Pattern((c % 2) * MaxRaw, 0)}

\* one pass of the loop of __read_serial that accepts a line, in a long run
FeedSteady ==
  /\ pc_d = "d_wait"
  /\ ~TriggerBlocksReader
  /\ counter < MaxTelegrams
  /\ counter' = NextCounter(counter)
  /\ \E v \in SteadyVectors(counter') :
       telegram' = telegram \o <<<<Str(counter')>>, TelegramLine(v)>>
  /\ trigger' = TRUE
  /\ handed' = Append(handed, counter')
  /\ lastHanded' = telegram'
  /\ UNCHANGED <<PRODUCTION, stopper, queue, disk, pc_r, nread,
                 decoderVars, taken, decoded, events, rawLast, rawBefore,
                 lossLast, lossBefore, startTotal, sumDelta, nChanged, nWrites>>
  /\ UNCHANGED <<lastWrite, brokerVars, brokerHistory>>

\* the decoder over a long run of telegrams, with its physical writes
ThrottleNext ==
  \/ FeedSteady
  \/ DecoderStart
  \/ DecoderLoop
  \/ DecoderWait
  \/ DecoderCopy
  \/ DecoderClearTelegram
  \/ DecoderClearTrigger
  \/ DecoderDecodeUnchanged
  \/ DecoderDecodeChanged
  \/ DecoderPublish
  \/ QueueGet

SpecThrottle == DecodeInit /\ [][ThrottleNext]_vars

(* ------------------ the decoder and its measurement file -------------- *)

\* a file that exists and that safe_load rejects
BrokenFile == [present |-> TRUE, data |-> BrokenDocument]

\* a file an earlier run wrote, from which the entry of the last input was
\* removed by hand
PartialFile ==
  [present |-> TRUE,
   data |-> YamlDump([total |-> [i \in Channels \ {NumChannels} |-> MaxStart],
                      date |-> 0])]

\* the measurement files the process may find when it starts
StartFiles == {NoFile, BrokenFile, EmptyFile, StoredFile, PartialFile}

StoreInit == InitButDisk /\ PRODUCTION /\ disk \in StartFiles

\* the decoder over a long run of telegrams, from any of the files, until it
\* is stopped
StoreNext ==
  \/ FeedSteady
  \/ DecoderStart
  \/ DecoderLoop
  \/ DecoderWait
  \/ DecoderCopy
  \/ DecoderClearTelegram
  \/ DecoderClearTrigger
  \/ DecoderDecodeUnchanged
  \/ DecoderDecodeChanged
  \/ DecoderUpdateRaises
  \/ DecoderPublish
  \/ DecoderFinalWrite
  \/ SignalStop
  \/ QueueGet

SpecStore == StoreInit /\ [][StoreNext]_vars

(* ----------------------------- mqttclient ----------------------------- *)

\* the (topic, message, retain) tuple of a status: set_status / __set_status
StatusMessage(topic, payload, retain) ==
  [topic |-> topic, message |-> payload, retain |-> retain]

\* cfg.MQTT_TOPIC_PREFIX + "/sw-version" with the version string
VersionMessage ==
  [topic |-> MQTT_TOPIC_PREFIX(PRODUCTION) \o "/sw-version",
   message |-> "version", retain |-> True]

\* the n-th tuple another thread (decoder, discovery) hands to do_publish
ProducedMessage(n) ==
  [topic |-> MQTT_TOPIC_PREFIX(PRODUCTION), message |-> Str(n),
   retain |-> False]

\* variant of the queue whose put never blocks
NeverFull(q) == TRUE

\* queue.Queue(maxsize): put blocks while the queue is full
CanPut(q) == Len(q) < MaxQueue

\* variant of the queue that hands out the newest tuple
TakeNewest(q) == [got |-> q[Len(q)], rest |-> SubSeq(q, 1, Len(q) - 1)]

\* self.__queue.get: the oldest tuple, and the queue that remains
Take(q) == [got |-> Head(q), rest |-> Tail(q)]

\* __set_connected_flag: the disconnect timer starts when a connected client
\* is flagged disconnected
DisconnectStart(flag, connected, start, t) ==
  IF ~flag /\ connected THEN t ELSE start

\* __on_connect: if rc == 0
Accepted(rc) == rc = 0

\* connack result codes: accepted, and refused (not authorised)
ResultCodes == {0, 5}

\* variant of the drain loop that goes on whatever its own stop signal says
DrainsWhileConnected == connected_flag

\* variant of the drain loop that also stops on the workers' stop signal
DrainsUntilAnyStop == ~mqtt_stopper /\ ~stopper /\ connected_flag

\* __do_mqtt: while not self.__mqtt_stopper.is_set() and self.__connected_flag
Drains == ~mqtt_stopper /\ connected_flag

\* variant of the timeout test that is never met
NeverTimesOut(t, start) == FALSE

\* run: disconnect_time > self.__MQTT_CONNECTION_TIMEOUT
TimedOut(t, start) == t - start > MQTT_CONNECTION_TIMEOUT

\* delay = delay * 1.2, in whole milliseconds
NextDelay(d) == (d * 6) \div 5

(* -------------------------------- main -------------------------------- *)

\* t_mqtt.will_set(cfg.MQTT_TOPIC_PREFIX + "/status", payload="interrupted")
MainWillSet ==
  /\ pc_main = "main_will"
  /\ will' = "interrupted"
  /\ pc_main' = "main_start"
  /\ UNCHANGED <<workerVars, stopper, queue, mqtt_stopper, connected_flag,
                 disconnect_start_time, status_topic, status_payload,
                 status_retain, clock, pc_m, delay, item, session, pc_cb,
                 cb_msg, pc_p, p_msg, brokerHistory>>

\* Start all threads
MainStart ==
  /\ pc_main = "main_start"
  /\ pc_m' = "m_probe"
  /\ pc_p' = "p_idle"
  /\ pc_main' = "main_online"
  /\ UNCHANGED <<workerVars, stopper, queue, mqtt_stopper, connected_flag,
                 disconnect_start_time, status_topic, status_payload,
                 status_retain, clock, delay, item, session, will, pc_cb,
                 cb_msg, p_msg, brokerHistory>>

\* what set_status leaves alone besides the three status fields
statusFrame == <<workerVars, stopper, queue, mqtt_stopper, connected_flag,
                 disconnect_start_time, clock, pc_m, delay, item, session,
                 will, pc_cb, cb_msg, pc_p, p_msg, brokerHistory>>

\* set_status: self.__status_topic = topic
MainSetTopic(from, to) ==
  /\ pc_main = from
  /\ status_topic' = StatusTopic
  /\ pc_main' = to
  /\ UNCHANGED <<statusFrame, status_payload, status_retain>>

\* set_status: self.__status_payload = payload
MainSetPayload(from, payload, to) ==
  /\ pc_main = from
  /\ status_payload' = payload
  /\ pc_main' = to
  /\ UNCHANGED <<statusFrame, status_topic, status_retain>>

\* set_status: self.__status_retain = retain
MainSetRetain(from, to) ==
  /\ pc_main = from
  /\ status_retain' = True
  /\ pc_main' = to
  /\ UNCHANGED <<statusFrame, status_topic, status_payload>>

\* do_publish called by main: the blocking put of one tuple
MainPut(from, msg, to) ==
  /\ pc_main = from
  /\ CanPut(queue)
  /\ queue' = Append(queue, msg)
  /\ PutRecorded(msg)
  /\ pc_main' = to
  /\ UNCHANGED <<workerVars, stopper, mqtt_stopper, connected_flag,
                 disconnect_start_time, status_topic, status_payload,
                 status_retain, clock, pc_m, delay, item, session, will,
                 pc_cb, cb_msg, pc_p, p_msg, nsub, nprobes, waited, npub, itemseq,
                 nconnects, willAtOpen>>

\* Set status to online: the three fields are stored one after the other
MainSetOnlineTopic == MainSetTopic("main_online", "main_online_payload")

MainSetOnlinePayload ==
  MainSetPayload("main_online_payload", "online", "main_online_retain")

MainSetOnlineRetain == MainSetRetain("main_online_retain", "main_online_put")

\* __set_status called by set_status: the remembered status is enqueued
MainPutOnline ==
  MainPut("main_online_put",
          StatusMessage(status_topic, status_payload, status_retain),
          "main_version")

\* t_mqtt.do_publish(cfg.MQTT_TOPIC_PREFIX + "/sw-version", ...)
MainPublishVersion == MainPut("main_version", VersionMessage, "main_join")

\* t_serial.join(): block till t_serial exits
MainJoin ==
  /\ pc_main = "main_join"
  /\ pc_r = "r_done"
  /\ pc_main' = "main_stop"
  /\ UNCHANGED <<workerVars, stopper, queue, mqtt_stopper, connected_flag,
                 disconnect_start_time, status_topic, status_payload,
                 status_retain, clock, pc_m, delay, item, session, will,
                 pc_cb, cb_msg, pc_p, p_msg, brokerHistory>>

\* threads_stopper.set()
MainStopWorkers ==
  /\ pc_main = "main_stop"
  /\ stopper' = TRUE
  /\ pc_main' = "main_offline"
  /\ UNCHANGED <<workerVars, queue, mqtt_stopper, connected_flag,
                 disconnect_start_time, status_topic, status_payload,
                 status_retain, clock, pc_m, delay, item, session, will,
                 pc_cb, cb_msg, pc_p, p_msg, brokerHistory>>

\* Set status to offline: the three fields are stored one after the other
MainSetOfflineTopic == MainSetTopic("main_offline", "main_offline_payload")

MainSetOfflinePayload ==
  MainSetPayload("main_offline_payload", "offline", "main_offline_retain")

MainSetOfflineRetain ==
  MainSetRetain("main_offline_retain", "main_offline_put")

MainPutOffline ==
  MainPut("main_offline_put",
          StatusMessage(status_topic, status_payload, status_retain),
          "main_sleep")

\* time.sleep(1); mqtt_stopper.set()
MainStopMqtt ==
  /\ pc_main = "main_sleep"
  /\ mqtt_stopper' = TRUE
  /\ pc_main' = "main_done"
  /\ UNCHANGED <<workerVars, stopper, queue, connected_flag,
                 disconnect_start_time, status_topic, status_payload,
                 status_retain, clock, pc_m, delay, item, session, will,
                 pc_cb, cb_msg, pc_p, p_msg, brokerHistory>>

\* main until it waits for the reader
MainUp ==
  \/ MainWillSet
  \/ MainStart
  \/ MainSetOnlineTopic
  \/ MainSetOnlinePayload
  \/ MainSetOnlineRetain
  \/ MainPutOnline
  \/ MainPublishVersion

\* main from the end of the reader on
MainDown ==
  \/ MainJoin
  \/ MainStopWorkers
  \/ MainSetOfflineTopic
  \/ MainSetOfflinePayload
  \/ MainSetOfflineRetain
  \/ MainPutOffline
  \/ MainStopMqtt

Main == MainUp \/ MainDown

(* --------------------------- mqttclient.run --------------------------- *)

\* what the mqtt thread leaves alone unless stated otherwise
mqttFrame == <<workerVars, status_topic, status_payload, status_retain,
               clock, will, pc_main, pc_cb, cb_msg, pc_p, p_msg, nsub,
               nenq, onlineAt, offlineAt, nconnects>>

\* variant of the probe loop that goes on to connect after a failed probe
MqttProbeFailsAndConnects(limit) ==
  /\ pc_m = "m_probe"
  /\ nprobes < limit
  /\ NextDelay(delay) <= DelayCeiling
  /\ waited' = waited + delay
  /\ delay' = NextDelay(delay)
  /\ nprobes' = nprobes + 1
  /\ pc_m' = "m_connect"
  /\ UNCHANGED <<mqttFrame, qseq, stopper, queue, mqtt_stopper, connected_flag,
                 disconnect_start_time, item, session, npub, itemseq,
                 willAtOpen>>

\* while not self.__internet_on(): time.sleep(delay); delay = delay * 1.2,
\* and the delay is still within the ceiling
MqttProbeFails(limit) ==
  /\ pc_m = "m_probe"
  /\ nprobes < limit
  /\ NextDelay(delay) <= DelayCeiling
  /\ waited' = waited + delay
  /\ delay' = NextDelay(delay)
  /\ nprobes' = nprobes + 1
  /\ UNCHANGED <<mqttFrame, qseq, stopper, queue, mqtt_stopper, connected_flag,
                 disconnect_start_time, pc_m, item, session, npub, itemseq,
                 willAtOpen>>

\* the same, and the delay has passed the ceiling: No internet connection -
\* EXIT
MqttGivesUp ==
  /\ pc_m = "m_probe"
  /\ NextDelay(delay) > DelayCeiling
  /\ waited' = waited + delay
  /\ delay' = NextDelay(delay)
  /\ nprobes' = nprobes + 1
  /\ mqtt_stopper' = TRUE
  /\ stopper' = TRUE
  /\ pc_m' = "m_done"
  /\ UNCHANGED <<mqttFrame, qseq, queue, connected_flag, disconnect_start_time,
                 item, session, npub, itemseq, willAtOpen>>

\* self.__internet_on() returns True
MqttProbeOk ==
  /\ pc_m = "m_probe"
  /\ pc_m' = "m_connect"
  /\ UNCHANGED <<mqttFrame, qseq, stopper, queue, mqtt_stopper, connected_flag,
                 disconnect_start_time, delay, item, session, nprobes,
                 waited, npub, itemseq, willAtOpen>>

\* connect_async returns; self.__mqtt.loop_start()
MqttConnect ==
  /\ pc_m = "m_connect"
  /\ session' = "open"
  /\ willAtOpen' = will
  /\ pc_m' = "m_loop"
  /\ UNCHANGED <<mqttFrame, qseq, stopper, queue, mqtt_stopper, connected_flag,
                 disconnect_start_time, delay, item, nprobes, waited,
                 npub, itemseq>>

\* connect_async raises: disconnect, set both stop signals, return
MqttConnectRaises ==
  /\ pc_m = "m_connect"
  /\ session' = "closed"
  /\ mqtt_stopper' = TRUE
  /\ stopper' = TRUE
  /\ pc_m' = "m_done"
  /\ UNCHANGED <<mqttFrame, qseq, queue, connected_flag, disconnect_start_time,
                 delay, item, nprobes, waited, npub, itemseq,
                 willAtOpen>>

\* while not self.__mqtt_stopper.is_set(): self.__do_mqtt()
MqttLoop ==
  /\ pc_m = "m_loop"
  /\ pc_m' = IF mqtt_stopper THEN "m_close" ELSE "m_do"
  /\ UNCHANGED <<mqttFrame, qseq, stopper, queue, mqtt_stopper, connected_flag,
                 disconnect_start_time, delay, item, session, nprobes,
                 waited, npub, itemseq, willAtOpen>>

\* __do_mqtt: if not self.__connected_flag: return None
MqttDoMqtt ==
  /\ pc_m = "m_do"
  /\ pc_m' = IF connected_flag THEN "m_drain" ELSE "m_check"
  /\ UNCHANGED <<mqttFrame, qseq, stopper, queue, mqtt_stopper, connected_flag,
                 disconnect_start_time, delay, item, session, nprobes,
                 waited, npub, itemseq, willAtOpen>>

\* __do_mqtt: the condition of the drain loop
MqttDrain ==
  /\ pc_m = "m_drain"
  /\ pc_m' = IF Drains THEN "m_get" ELSE "m_check"
  /\ UNCHANGED <<mqttFrame, qseq, stopper, queue, mqtt_stopper, connected_flag,
                 disconnect_start_time, delay, item, session, nprobes,
                 waited, npub, itemseq, willAtOpen>>

\* self.__queue.get(block=True, timeout=1) returns a tuple
MqttGet ==
  /\ pc_m = "m_get"
  /\ Len(queue) > 0
  /\ item' = <<Take(queue).got>>
  /\ queue' = Take(queue).rest
  /\ itemseq' = Take(qseq).got
  /\ qseq' = Take(qseq).rest
  /\ pc_m' = "m_publish"
  /\ UNCHANGED <<mqttFrame, stopper, mqtt_stopper, connected_flag,
                 disconnect_start_time, delay, session, nprobes, waited,
                 npub, willAtOpen>>

\* self.__queue.get raises queue.Empty after the timeout: continue
MqttGetEmpty ==
  /\ pc_m = "m_get"
  /\ Len(queue) = 0
  /\ pc_m' = "m_drain"
  /\ UNCHANGED <<mqttFrame, qseq, stopper, queue, mqtt_stopper, connected_flag,
                 disconnect_start_time, delay, item, session, nprobes,
                 waited, npub, itemseq, willAtOpen>>

\* self.__mqtt.publish(topic, message, qos, retain): the tuple goes to paho
MqttPublish ==
  /\ pc_m = "m_publish"
  /\ npub' = npub + 1
  /\ item' = <<>>
  /\ pc_m' = "m_drain"
  /\ UNCHANGED <<mqttFrame, qseq, stopper, queue, mqtt_stopper, connected_flag,
                 disconnect_start_time, delay, session, nprobes, waited,
                 itemseq, willAtOpen>>

\* where the drain loop logs a delivery that failed: "m_rc" after a result
\* code other than MQTT_ERR_SUCCESS, "m_rejected" after a ValueError
FailedPublish == {"m_rc", "m_rejected"}

\* a drain loop that would put the tuple of a failed delivery back in front
MqttPublishRequeues(kind) ==
  /\ pc_m = "m_publish"
  /\ npub' = npub + 1
  /\ queue' = item \o queue
  /\ qseq' = <<itemseq>> \o qseq
  /\ item' = <<>>
  /\ pc_m' = kind
  /\ UNCHANGED <<mqttFrame, stopper, mqtt_stopper, connected_flag,
                 disconnect_start_time, delay, session, nprobes, waited,
                 itemseq, willAtOpen>>

\* self.__mqtt.publish(...) returns another result code than
\* MQTT_ERR_SUCCESS, or raises ValueError: the tuple went to paho and is
\* dropped, a warning is logged
MqttPublishEnds(kind) ==
  /\ pc_m = "m_publish"
  /\ npub' = npub + 1
  /\ item' = <<>>
  /\ pc_m' = kind
  /\ UNCHANGED <<mqttFrame, qseq, stopper, queue, mqtt_stopper, connected_flag,
                 disconnect_start_time, delay, session, nprobes, waited,
                 itemseq, willAtOpen>>

\* if mqttmessageinfo.rc != MQTT_ERR_SUCCESS: logger.warning(...)
MqttPublishFails == MqttPublishEnds("m_rc")

\* except ValueError: logger.warning("")
MqttPublishRejected == MqttPublishEnds("m_rejected")

\* after the warning the body of the drain loop is over
MqttWarned ==
  /\ pc_m \in FailedPublish
  /\ pc_m' = "m_drain"
  /\ UNCHANGED <<mqttFrame, qseq, stopper, queue, mqtt_stopper, connected_flag,
                 disconnect_start_time, delay, item, session, nprobes,
                 waited, npub, itemseq, willAtOpen>>

\* run: whether the client is disconnected for longer than the timeout
ReconnectDue ==
  ~connected_flag /\ TimedOut(clock, disconnect_start_time)

\* run: connected, or disconnected within the timeout: time.sleep(0.1)
MqttCheck ==
  /\ pc_m = "m_check"
  /\ ~ReconnectDue
  /\ pc_m' = "m_loop"
  /\ UNCHANGED <<mqttFrame, qseq, stopper, queue, mqtt_stopper, connected_flag,
                 disconnect_start_time, delay, item, session, nprobes,
                 waited, npub, itemseq, willAtOpen>>

\* run: disconnected for longer than the timeout: self.__mqtt.reconnect() is
\* called
MqttCheckDue ==
  /\ pc_m = "m_check"
  /\ ReconnectDue
  /\ pc_m' = "m_reconnect"
  /\ UNCHANGED <<mqttFrame, qseq, stopper, queue, mqtt_stopper, connected_flag,
                 disconnect_start_time, delay, item, session, nprobes,
                 waited, npub, itemseq, willAtOpen>>

\* run: self.__mqtt.reconnect() returns; time.sleep(0.1)
MqttReconnect ==
  /\ pc_m = "m_reconnect"
  /\ pc_m' = "m_loop"
  /\ UNCHANGED <<mqttFrame, qseq, stopper, queue, mqtt_stopper, connected_flag,
                 disconnect_start_time, delay, item, session, nprobes,
                 waited, npub, itemseq, willAtOpen>>

\* run: self.__mqtt.reconnect() raises: reset disconnect time, retry after
\* the timeout
MqttReconnectRaises ==
  /\ pc_m = "m_reconnect"
  /\ disconnect_start_time' = clock
  /\ pc_m' = "m_loop"
  /\ UNCHANGED <<mqttFrame, qseq, stopper, queue, mqtt_stopper, connected_flag,
                 delay, item, session, nprobes, waited, npub, itemseq,
                 willAtOpen>>

\* Close mqtt broker: loop_stop, disconnect, set both stop signals
MqttClose ==
  /\ pc_m = "m_close"
  /\ session' = "closed"
  /\ mqtt_stopper' = TRUE
  /\ stopper' = TRUE
  /\ pc_m' = "m_done"
  /\ UNCHANGED <<mqttFrame, qseq, queue, connected_flag, disconnect_start_time,
                 delay, item, nprobes, waited, npub, itemseq,
                 willAtOpen>>

(* ---------------- the paho network thread and other threads ----------- *)

\* what a callback leaves alone unless stated otherwise
callbackFrame == <<workerVars, stopper, mqtt_stopper, status_topic,
                   status_payload, status_retain, clock, pc_m, delay, item,
                   session, will, pc_main, pc_p, p_msg, nsub, nprobes, waited,
                   npub, itemseq, willAtOpen>>

\* a CONNACK with result code rc arrives; accepted ones are counted
ConnackArrives(rc) ==
  IF rc = 0
    THEN nconnects < MaxConnects /\ nconnects' = nconnects + 1
    ELSE UNCHANGED nconnects

\* __on_connect: the flag, and with rc == 0 the call of __set_status, which
\* reads the remembered status and calls do_publish
OnConnect ==
  /\ session = "open"
  /\ pc_cb = "cb_idle"
  /\ \E rc \in ResultCodes :
       /\ ConnackArrives(rc)
       /\ connected_flag' = Accepted(rc)
       /\ disconnect_start_time' =
            DisconnectStart(Accepted(rc), connected_flag,
                            disconnect_start_time, clock)
       /\ IF Accepted(rc) /\ status_topic # None
            THEN /\ cb_msg' = <<StatusMessage(status_topic, None, None)>>
                 /\ pc_cb' = "cb_payload"
            ELSE UNCHANGED <<cb_msg, pc_cb>>
  /\ UNCHANGED <<callbackFrame, queue, putHistory>>

\* __set_status in the callback: the argument self.__status_payload is read
OnConnectReadPayload ==
  /\ pc_cb = "cb_payload"
  /\ cb_msg' = <<[cb_msg[1] EXCEPT !.message = status_payload]>>
  /\ pc_cb' = "cb_retain"
  /\ UNCHANGED <<callbackFrame, queue, putHistory, connected_flag,
                 disconnect_start_time, nconnects>>

\* __set_status in the callback: the argument self.__status_retain is read
OnConnectReadRetain ==
  /\ pc_cb = "cb_retain"
  /\ cb_msg' = <<[cb_msg[1] EXCEPT !.retain = status_retain]>>
  /\ pc_cb' = "cb_put"
  /\ UNCHANGED <<callbackFrame, queue, putHistory, connected_flag,
                 disconnect_start_time, nconnects>>

\* do_publish called by __set_status in the callback: the blocking put
OnConnectPut ==
  /\ pc_cb = "cb_put"
  /\ CanPut(queue)
  /\ queue' = Append(queue, cb_msg[1])
  /\ PutRecorded(cb_msg[1])
  /\ cb_msg' = <<>>
  /\ pc_cb' = "cb_idle"
  /\ UNCHANGED <<callbackFrame, connected_flag, disconnect_start_time,
                 nconnects>>

\* __on_disconnect: self.__set_connected_flag(False)
OnDisconnect ==
  /\ session = "open"
  /\ pc_cb = "cb_idle"
  /\ connected_flag' = FALSE
  /\ disconnect_start_time' =
       DisconnectStart(FALSE, connected_flag, disconnect_start_time, clock)
  /\ UNCHANGED <<callbackFrame, queue, putHistory, cb_msg, pc_cb, nconnects>>

\* another thread (decoder, discovery) calls do_publish with its next tuple
ProducerCall ==
  /\ pc_p = "p_idle"
  /\ nsub < MaxMsgs
  /\ nsub' = nsub + 1
  /\ p_msg' = <<ProducedMessage(nsub')>>
  /\ pc_p' = "p_put"
  /\ UNCHANGED <<workerVars, stopper, queue, brokerHistoryButNsub,
                 mqtt_stopper, connected_flag, disconnect_start_time,
                 status_topic, status_payload, status_retain, clock, pc_m,
                 delay, item, session, will, pc_main, pc_cb, cb_msg>>

\* do_publish: self.__queue.put((topic, message, retain)), blocking
ProducerPut ==
  /\ pc_p = "p_put"
  /\ CanPut(queue)
  /\ queue' = Append(queue, p_msg[1])
  /\ PutRecorded(p_msg[1])
  /\ p_msg' = <<>>
  /\ pc_p' = "p_idle"
  /\ UNCHANGED <<workerVars, stopper, mqtt_stopper, connected_flag,
                 disconnect_start_time, status_topic, status_payload,
                 status_retain, clock, pc_m, delay, item, session, will,
                 pc_main, pc_cb, cb_msg, nsub, nprobes, waited, npub, itemseq,
                 nconnects, willAtOpen>>

\* the clock advances
Tick ==
  /\ clock + ClockStep <= MaxTime
  /\ clock' = clock + ClockStep
  /\ UNCHANGED <<workerVars, stopper, queue, brokerHistory, mqtt_stopper,
                 connected_flag, disconnect_start_time, status_topic,
                 status_payload, status_retain, pc_m, delay, item, session,
                 will, pc_main, pc_cb, cb_msg, pc_p, p_msg>>

(* ------------------------ the broker side ----------------------------- *)

\* the mqtt thread once the broker is reachable, until it is told to stop
MqttRuns ==
  \/ MqttProbeOk
  \/ MqttConnect
  \/ MqttLoop
  \/ MqttDoMqtt
  \/ MqttDrain
  \/ MqttGet
  \/ MqttGetEmpty
  \/ MqttPublish
  \/ MqttCheck
  \/ MqttCheckDue
  \/ MqttReconnect
  \/ MqttReconnectRaises

\* the callbacks paho's network thread makes
Callbacks ==
  \/ OnConnect
  \/ OnConnectReadPayload
  \/ OnConnectReadRetain
  \/ OnConnectPut
  \/ OnDisconnect

\* the drain loop and the paho callbacks
Broker == MqttRuns \/ Callbacks

BrokerInit == Init /\ PRODUCTION /\ disk = NoFile

\* the queue between its producers (main, the connect callback and a thread
\* that publishes) and the drain loop, while the reader keeps working
QueueNext ==
  \/ MainUp
  \/ Broker
  \/ ProducerCall
  \/ ProducerPut

SpecQueue == BrokerInit /\ [][QueueNext]_vars

\* the drain loop while deliveries may fail, fed by main and by the connect
\* callback
DeliverNext ==
  \/ MainUp
  \/ Broker
  \/ MqttPublishFails
  \/ MqttPublishRejected
  \/ MqttWarned

SpecDeliver == BrokerInit /\ [][DeliverNext]_vars

\* the mqtt thread and the callbacks while time passes and the reader keeps
\* working
ReconnectNext ==
  \/ MainUp
  \/ Broker
  \/ Tick

\* the mqtt thread is scheduled again and again: its loop sleeps 0.1 s per
\* round and its get gives up after 1 s
SpecReconnect ==
  BrokerInit /\ [][ReconnectNext]_vars /\ WF_vars(MqttRuns)

\* a probe fails again, as long as the broker stays out of reach
MqttProbeFailsAgain == MqttProbeFails(MaxFailures)

\* the start of the mqtt thread while the broker may stay out of reach
BackoffNext ==
  \/ MainWillSet
  \/ MainStart
  \/ MqttProbeFailsAgain
  \/ MqttGivesUp
  \/ MqttProbeOk
  \/ MqttConnect
  \/ MqttConnectRaises

SpecBackoff == BrokerInit /\ [][BackoffNext]_vars

\* the broker is reached after at most MaxProbes failed probes, or never
MqttProbeOkEarly == nprobes <= MaxProbes /\ MqttProbeOk

\* the mqtt thread from start to end, however it ends
MqttThread ==
  \/ MqttProbeFailsAgain
  \/ MqttGivesUp
  \/ MqttProbeOkEarly
  \/ MqttConnect
  \/ MqttConnectRaises
  \/ MqttLoop
  \/ MqttDoMqtt
  \/ MqttDrain
  \/ MqttGet
  \/ MqttGetEmpty
  \/ MqttPublish
  \/ MqttCheck
  \/ MqttCheckDue
  \/ MqttReconnect
  \/ MqttReconnectRaises
  \/ MqttClose

\* main, the mqtt thread and the paho callbacks from start to shutdown, with
\* a broker that may never be reached and a reader that sees the stop signal
\* or keeps working, at one instant of the clock
BrokerNext ==
  \/ Main
  \/ MqttThread
  \/ Callbacks
  \/ ReaderLoop
  \/ ReaderFinally
  \/ SignalStop

SpecBroker == BrokerInit /\ [][BrokerNext]_vars

\* the mqtt thread is scheduled again and again: its sleeps end, its get gives
\* up after 1 s, and the calls it makes into paho return
SpecShutdown == SpecBroker /\ WF_vars(MqttThread)

(* ------------------- the decoder and the mqtt thread ------------------ *)

\* one pass of the loop of __read_serial that accepts a line, in a short run:
\* the telegram that seeds the previous values and a few that may change them
FeedFew ==
  /\ pc_d = "d_wait"
  /\ ~TriggerBlocksReader
  /\ counter < MaxFreeCycles
  /\ counter' = NextCounter(counter)
  /\ \E v \in SteadyVectors(counter') :
       telegram' = telegram \o <<<<Str(counter')>>, TelegramLine(v)>>
  /\ trigger' = TRUE
  /\ handed' = Append(handed, counter')
  /\ lastHanded' = telegram'
  /\ UNCHANGED <<PRODUCTION, stopper, queue, disk, pc_r, nread,
                 decoderVars, taken, decoded, events, rawLast, rawBefore,
                 lossLast, lossBefore, startTotal, sumDelta, nChanged, nWrites>>
  /\ UNCHANGED <<lastWrite, brokerVars, brokerHistory>>

\* the decoder thread on telegrams that decode
DecoderRuns ==
  \/ DecoderStart
  \/ DecoderLoop
  \/ DecoderWait
  \/ DecoderCopy
  \/ DecoderClearTelegram
  \/ DecoderClearTrigger
  \/ DecoderDecodeUnchanged
  \/ DecoderDecodeChanged
  \/ DecoderPublish
  \/ DecoderFinalWrite

\* the mqtt thread while the broker answers no connect request: the client
\* stays flagged disconnected and the drain loop is never entered
MqttOffline ==
  \/ MqttProbeOk
  \/ MqttConnect
  \/ MqttLoop
  \/ MqttDoMqtt
  \/ MqttCheck
  \/ MqttCheckDue
  \/ MqttReconnect
  \/ MqttReconnectRaises

\* the decoder publishing into the queue that main also fills, while the
\* client is disconnected, until the workers are told to stop
PublishNext ==
  \/ MainUp
  \/ MqttOffline
  \/ FeedFew
  \/ DecoderRuns
  \/ SignalStop

\* the decoder and the mqtt thread are scheduled again and again
SpecPublish ==
  /\ BrokerInit
  /\ [][PublishNext]_vars
  /\ WF_vars(DecoderMoves)
  /\ []<>DecodeReturns
  /\ WF_vars(MqttOffline)

(* --------------------- properties of the decoder ---------------------- *)

\* a step of the decoder that ends a decode cycle
CycleEnds == pc_d = "d_decode" /\ pc_d' \in {"d_loop", "d_publish"}

\* C1: for every input M1..M5 the running total never decreases from one
\* state of the program to the next, whatever raw vectors arrive
C1_TotalsNeverDecrease ==
  [][\A i \in Channels : measurements'.total[i] >= measurements.total[i]]_vars

\* a cycle has just added its deltas although the raw counter of one input
\* went down against the previous cycle and another input's went up
C1_Witness ==
  /\ pc_d = "d_publish"
  /\ \E i \in Channels : rawLast[i] < rawBefore[i]
  /\ \E i \in Channels : measurements.total[i] > startTotal[i]

\* C2: each input's total is the total the decoder started from plus the sum,
\* over the cycles decoded so far, of max(0, raw value - previous raw value)
C2_TotalIsStartPlusDeltas ==
  \A i \in Channels : measurements.total[i] = startTotal[i] + sumDelta[i]

\* two cycles with a change have been added to non-zero starting totals, for
\* a mapped input (M1) and for an unmapped one (M2)
C2_Witness ==
  /\ pc_d = "d_loop"
  /\ nChanged >= 2
  /\ startTotal[1] = MaxStart
  /\ sumDelta[1] >= 2
  /\ sumDelta[2] > 0

\* C3: in a cycle in which an input's raw counter is lower than in the
\* previous cycle, the input's total is unchanged and its stored previous
\* value becomes the new lower value; in the cycle after it the total grows
\* by the raw value less that lower value
C3_PowerLossAddsZero ==
  [][CycleEnds /\ rawLast # <<>> =>
       \A i \in Channels :
         /\ At(all_values', i) < rawLast[i] =>
              /\ measurements'.total[i] = measurements.total[i]
              /\ At(prev_all_values', i) = At(all_values', i)
         /\ i \in lossLast =>
              measurements'.total[i] =
                measurements.total[i] + Max(0, At(all_values', i) - rawLast[i])
    ]_vars

\* M5 read MaxRaw, then 0, then a value between: the third cycle has added
\* exactly that value to the starting total
C3_Witness ==
  /\ pc_d = "d_publish"
  /\ 5 \in lossBefore
  /\ rawBefore[5] = 0
  /\ rawLast[5] > 0
  /\ rawLast[5] < MaxRaw
  /\ measurements.total[5] = startTotal[5] + rawLast[5]

\* C4: a cycle whose raw vector equals that of the previous cycle enqueues
\* nothing, writes nothing and leaves totals, date, write counter and stored
\* previous values as they were
C4_UnchangedCycleIsNoOp ==
  [][CycleEnds /\ rawLast # <<>> /\ RawOf(all_values') = rawLast =>
       /\ pc_d' = "d_loop"
       /\ UNCHANGED <<queue, events, disk, nWrites, measurements,
                      write_counter, prev_all_values>>
    ]_vars

\* the same telegram came twice in a row after a cycle with a change: one
\* event was published, and the second copy has been decoded
C4_Witness ==
  /\ pc_d = "d_loop"
  /\ Len(decoded) = 3
  /\ rawLast = rawBefore
  /\ nChanged = 1
  /\ Len(events) = 1

\* C5: the first telegram decoded after the decoder starts only seeds the
\* stored previous values: no total changes, nothing is enqueued or written
C5_FirstTelegramOnlySeeds ==
  [][CycleEnds /\ rawLast = <<>> =>
       /\ pc_d' = "d_loop"
       /\ prev_all_values' = all_values'
       /\ UNCHANGED <<queue, events, disk, nWrites, measurements,
                      write_counter>>
    ]_vars

\* the first telegram, with non-zero raw counters, has been decoded onto
\* totals loaded from the file
C5_Witness ==
  /\ pc_d = "d_loop"
  /\ Len(decoded) = 1
  /\ rawLast[1] = MaxRaw
  /\ rawLast[2] = MaxRaw
  /\ startTotal[1] = MaxStart
  /\ prev_all_values = <<0>> \o rawLast

\* the names cfg.S0_DEFINITION gives to inputs
FriendlyNames == {S0_DEFINITION[MKey(i)] : i \in Channels} \ {None}

\* C6: a cycle with a change enqueues exactly one event; the event carries,
\* under its friendly name, the accumulated total of every mapped input, and
\* no key for an input mapped to None
C6_OneEventWithNamedTotals ==
  [][/\ pc_d = "d_decode" /\ pc_d' = "d_publish" => UNCHANGED <<queue, events>>
     /\ pc_d = "d_publish" /\ pc_d' # "d_publish" =>
          /\ Len(queue') = Len(queue) + 1
          /\ SubSeq(queue', 1, Len(queue)) = queue
          /\ Len(events') = nChanged
          /\ Len(events) = nChanged - 1
          /\ LET m == queue'[Len(queue')].message
             IN /\ DOMAIN m =
                     {"timestamp", "counter", "database", "serial"}
                       \cup FriendlyNames
                /\ \A i \in Channels :
                     S0_DEFINITION[MKey(i)] # None =>
                       m[S0_DEFINITION[MKey(i)]] = measurements.total[i]
     /\ pc_d \notin {"d_publish"} => Len(events) = nChanged
    ]_vars

\* M1 and M3 went from 0 to MaxRaw on zero starting totals: the one event in
\* the queue reports jacuzzi and water with those totals and no M key
C6_Witness ==
  /\ Len(queue) = 1
  /\ nChanged = 1
  /\ startTotal[1] = 0
  /\ queue[1].message["jacuzzi"] = MaxRaw
  /\ queue[1].message["water"] = MaxRaw
  /\ \A i \in Channels : MKey(i) \notin DOMAIN queue[1].message

(* ---------------------- properties of the hand-off -------------------- *)

\* C7: at most one telegram is in flight: the shared buffer never holds more
\* than one counter and one line, and while the trigger is set the reader
\* neither appends to the buffer nor clears it (every reader step that
\* changes the buffer starts with the trigger clear)
C7_ReaderKeepsOffWhileTriggerSet ==
  [][/\ Len(telegram') <= 2
     /\ pc_r' # pc_r /\ telegram' # telegram => ~trigger
    ]_vars

\* the reader is held back at its wait, the next line pending, while the
\* decoder has copied the telegram in flight but not yet cleared the buffer
C7_Witness ==
  /\ trigger
  /\ pc_r = "r_wait"
  /\ pc_d = "d_clear"
  /\ Len(telegram) = 2
  /\ nread < MaxLines

\* C8: while the stop signal is not set, every telegram handed off is decoded
\* exactly once and in hand-off order: the telegrams decoded are the first of
\* those handed off, in the same order, and while some are yet to be decoded
\* the decoder thread is alive to decode them
C8_HandedOffDecodedOnceInOrder ==
  ~stopper =>
    /\ Len(decoded) <= Len(handed)
    /\ decoded = SubSeq(handed, 1, Len(decoded))
    /\ Len(decoded) < Len(handed) => pc_d \notin {"d_crashed", "d_done"}

\* C9: a line that fails the validation is never handed off: the reader
\* clears the telegram it was building and sets neither trigger nor stop
\* signal, and decoder, queue and file are as they were when the reader
\* started on the line (buffer empty, trigger clear); the telegrams handed off
\* are validated lines, each carrying as its counter the number of lines read
\* so far, the rejected ones included
C9_MalformedLineIsDropped ==
  [][/\ pc_r = "r_append" /\ pc_r' = "r_read" => telegram = <<>> /\ ~trigger
     /\ pc_r = "r_read" /\ pc_r' = "r_loop" =>
          /\ telegram' = <<>>
          /\ ~trigger'
          /\ stopper' = stopper
          /\ UNCHANGED <<decoderVars, queue, disk, handed, counter>>
     /\ pc_r = "r_trigger" /\ pc_r' = "r_loop" =>
          /\ Len(telegram) = 2
          /\ MatchesTelegram(telegram[2])
          /\ handed' = Append(handed, nread)
    ]_vars

\* a rejected line was followed by two telegrams: both were handed off, with
\* counters 2 and 3, and the change between them was published
C9_Witness ==
  /\ handed = <<2, 3>>
  /\ events = <<3>>
  /\ pc_d = "d_loop"

\* C9 as stated: a telegram read after a malformed line is published exactly
\* as if that line had not occurred, so the counter an event carries is the
\* rank of its telegram among the telegrams handed off
C9_AsIfLineHadNotOccurred ==
  \A k \in 1..Len(events) :
    \E j \in 1..Len(handed) : handed[j] = events[k] /\ events[k] = j

\* C10: the sequence counter strictly increases from each telegram handed
\* off to the next, and so does the counter field from each event published
\* to the next
C10_CounterStrictlyIncreases ==
  /\ \A j, k \in 1..Len(handed) : j < k => handed[j] < handed[k]
  /\ \A j, k \in 1..Len(events) : j < k => events[j] < events[k]

\* three telegrams were handed off and two events published
C10_Witness ==
  /\ Len(handed) = 3
  /\ Len(events) = 2

(* ---------------------- properties of the queue ---------------------- *)

\* C11: the tuples are handed to the paho client in exactly the order in
\* which they were put into the queue: the tuple taken from the queue is the
\* next one in put order after those already handed over, and the tuples
\* still queued follow it in put order, whatever thread put them
C11_HandedInEnqueueOrder ==
  /\ pc_m = "m_publish" => itemseq = npub + 1
  /\ \A i \in 1..Len(qseq) : qseq[i] = npub + Len(item) + i

\* a tuple is about to be handed over after an earlier one, while two more
\* wait in the queue
C11_Witness ==
  /\ pc_m = "m_publish"
  /\ npub >= 1
  /\ Len(queue) >= 2

\* C12: the queue never holds more than its capacity and never drops a
\* tuple: every tuple put is queued, in the drain loop's hand or handed to
\* the client; a thread that calls do_publish on a full queue keeps its tuple
\* and waits, and its put can complete as soon as the queue has room again
C12_BoundedAndNothingDropped ==
  /\ Len(queue) <= MaxQueue
  /\ Len(qseq) = Len(queue)
  /\ nenq = npub + Len(item) + Len(queue)
  /\ pc_p = "p_put" => p_msg = <<ProducedMessage(nsub)>>
  /\ pc_p = "p_put" /\ Len(queue) = MaxQueue => ~ENABLED ProducerPut
  /\ pc_p = "p_put" /\ Len(queue) < MaxQueue => ENABLED ProducerPut

\* the session was open and tuples were handed over; now the client is
\* disconnected, the queue is full and a thread waits with its tuple
C12_Witness ==
  /\ pc_p = "p_put"
  /\ Len(queue) = MaxQueue
  /\ ~connected_flag
  /\ session = "open"
  /\ npub >= 1

(* ------------------ properties of the broker connection --------------- *)

\* the statuses main asks set_status to remember
RememberedStatuses ==
  {StatusMessage(StatusTopic, payload, True) : payload \in {"online", "offline"}}

\* C13: a connect callback with result code 0 has flagged the client
\* connected, and the tuple it is about to put is a status that set_status
\* was asked to remember, with its topic, payload and retain flag
C13_ConnectReplaysRememberedStatus ==
  pc_cb = "cb_put" =>
    /\ connected_flag
    /\ cb_msg[1] \in RememberedStatuses

\* the session is open, the broker stop signal is not set, and the client
\* has been flagged disconnected for more than the timeout
DisconnectedTooLong ==
  /\ session = "open"
  /\ ~mqtt_stopper
  /\ ~connected_flag
  /\ clock - disconnect_start_time > MQTT_CONNECTION_TIMEOUT

\* reconnect() is called only when the timeout has run out and in every
\* round in which it has, and the timer is left alone or restarted at the
\* present time when the call ends
ReconnectOnTimeoutOnly ==
  /\ (pc_m # "m_reconnect" /\ pc_m' = "m_reconnect") =>
        (/\ ~connected_flag
         /\ clock - disconnect_start_time > MQTT_CONNECTION_TIMEOUT)
  /\ (pc_m = "m_check" /\ pc_m' = "m_loop") =>
        (\/ connected_flag
         \/ clock - disconnect_start_time <= MQTT_CONNECTION_TIMEOUT)
  /\ (pc_m = "m_reconnect" /\ pc_m' # "m_reconnect") =>
        (\/ UNCHANGED disconnect_start_time
         \/ disconnect_start_time' = clock)

\* C14: a client that stays disconnected for more than the timeout, with the
\* broker stop signal not set, eventually has reconnect() called; reconnect()
\* is called only when the timeout has run out, a call that raises restarts
\* the disconnect timer at the present time and a call that returns leaves
\* it, so the next call after one that raised comes one timeout later
C14_ReconnectAfterTimeout ==
  /\ DisconnectedTooLong ~> (connected_flag \/ pc_m = "m_reconnect")
  /\ [][ReconnectOnTimeoutOnly]_vars

\* no connection has been accepted yet; a call of reconnect() raised and
\* restarted the timer, and more than one timeout later reconnect() is called
\* again
C14_Witness ==
  /\ pc_m = "m_reconnect"
  /\ nconnects = 0
  /\ disconnect_start_time > 0
  /\ clock - disconnect_start_time > MQTT_CONNECTION_TIMEOUT

\* C15 as stated: the thread is no longer in the probe loop once the time it
\* has slept between probes, in milliseconds, has passed the ceiling of
\* 3600 s
C15_GivesUpAtCumulativeCeiling ==
  pc_m = "m_probe" => waited <= DelayCeiling

DrainIgnoresWorkersStop ==
  (pc_m = "m_drain" /\ pc_m' # "m_drain" /\ connected_flag /\ ~mqtt_stopper)
    => pc_m' = "m_get"

\* C17: the workers' stop signal alone does not end the mqtt thread, which
\* keeps taking and publishing tuples while connected until the broker stop
\* signal is set; and unless the thread has ended by itself, the broker stop
\* signal is set only by main, after the reader has ended and the "offline"
\* status has been put into the queue
C17_OwnStopAfterOffline ==
  /\ [](mqtt_stopper =>
          \/ pc_m = "m_done"
          \/ /\ pc_main = "main_done"
             /\ pc_r = "r_done"
             /\ stopper
             /\ offlineAt > 0)
  /\ [][DrainIgnoresWorkersStop]_vars

\* the reader has ended and the workers' stop signal is set, the broker stop
\* signal is not, and the mqtt thread is about to publish the "offline"
\* status it took from the queue
C17_Witness ==
  /\ stopper
  /\ pc_r = "r_done"
  /\ ~mqtt_stopper
  /\ pc_m = "m_publish"
  /\ item[1].message = "offline"

\* the last will is registered before the session is opened, "online" is
\* set after the threads are started, and "offline" only after the reader
\* has ended and the workers' stop signal is set
StatusSetInOrder ==
  /\ session = "open" => willAtOpen = "interrupted"
  /\ (status_payload = "online" \/ onlineAt > 0) => pc_m # "m_new"
  /\ (status_payload = "offline" \/ offlineAt > 0) =>
        (pc_r = "r_done" /\ stopper)
  /\ offlineAt > 0 => (0 < onlineAt /\ onlineAt < offlineAt)

\* C18 as stated: the order in which main registers the last will and sets
\* the two statuses, and with it, in the queue, no "offline" status ahead of
\* an "online" status
C18_OnlinePrecedesOffline ==
  /\ StatusSetInOrder
  /\ \A i, j \in 1..Len(queue) :
        (queue[i].message = "offline" /\ queue[j].message = "online") => j < i

(* ------------------- properties of the durable store ------------------ *)

\* a physical write happens only in the publish step of a change cycle whose
\* write counter stands at N - 1, and resets the counter
WriteOnlyOnTenth ==
  (disk' # disk \/ nWrites' # nWrites) =>
    /\ pc_d = "d_publish"
    /\ write_counter = WriteInterval - 1
    /\ write_counter' = 0
    /\ nWrites' = nWrites + 1

\* C19: while the decoder runs, the write counter is the number of accepted
\* change cycles modulo N = 10 and the number of physical writes attempted is
\* that number divided by N: the counter goes up by one per accepted cycle,
\* every N-th one attempts a write and resets it, and no other step of the
\* running decoder writes
C19_WritesEveryTenthChange ==
  /\ [](pc_d \notin {"d_final", "d_done"} =>
          /\ write_counter = Len(events) % WriteInterval
          /\ nWrites = Len(events) \div WriteInterval)
  /\ [][pc_d \notin {"d_final", "d_done"} => WriteOnlyOnTenth]_vars

\* twenty change cycles have been accepted and published: two physical
\* writes were attempted and the counter is back at 0
C19_Witness ==
  /\ Len(events) = 2 * WriteInterval
  /\ nWrites = 2
  /\ write_counter = 0
  /\ pc_d = "d_loop"

\* the decoder thread ends in this step, with the stop signal set
DecoderEndsAfterStop ==
  /\ stopper
  /\ pc_d \notin {"d_done", "d_crashed"}
  /\ pc_d' \in {"d_done", "d_crashed"}

\* C20 as stated: the step in which the decoder thread ends after the stop
\* signal was set attempts one physical write whatever the write counter,
\* and unless that write fails the file then holds the totals and the date
\* the decoder has in memory
C20_FinalWriteAtTermination ==
  [][DecoderEndsAfterStop =>
       /\ nWrites' = nWrites + 1
       /\ lastWrite' = "dumped" =>
            (disk'.present /\ disk'.data = YamlDump(measurements'))]_vars

\* the step attempts a physical write of the measurement file
WriteAttempted == nWrites' = nWrites + 1

\* C21: whenever a physical write ends by a completed dump, loading the file
\* it left gives back the state that was written: the same total for every
\* input the state holds, and the same date
C21_WriteThenLoadKeepsTotals ==
  [][WriteAttempted /\ lastWrite' = "dumped" =>
       /\ disk'.present
       /\ YamlLoad(disk'.data).ok
       /\ YamlLoad(disk'.data).value.total = measurements'.total
       /\ YamlLoad(disk'.data).value.date = measurements'.date
       /\ ReadMeasurements(disk', DefaultMeasurements) = measurements'
    ]_vars

\* the tenth change was written by a completed dump: totals loaded from an
\* earlier file, grown for M1 and left for M2, and the file loads to them
C21_Witness ==
  /\ pc_d = "d_loop"
  /\ nWrites = 1
  /\ lastWrite = "dumped"
  /\ write_counter = 0
  /\ measurements.total[2] = MaxStart
  /\ measurements.total[1] > MaxStart + MaxRaw
  /\ measurements.date = MaxTs
  /\ YamlLoad(disk.data).value.total = measurements.total

\* open() raises for the file, or safe_load rejects it
Unreadable(file) == ~file.present \/ ~YamlLoad(file.data).ok

\* the read at startup of a file that cannot be opened or parsed leaves the
\* initial values and the stop signal as they are and goes on to the loop
UnreadableKeepsDefaults ==
  (pc_d = "d_start" /\ pc_d' # "d_start" /\ Unreadable(disk)) =>
     /\ measurements' = DefaultMeasurements
     /\ stopper' = stopper
     /\ pc_d' = "d_loop"

\* C22: when the measurement file is absent or cannot be read or parsed at
\* startup, the decoder keeps the all-zero defaults and does not set the stop
\* signal, and it goes on decoding: started from the defaults it never fails
\* on a telegram, and each total is the sum of the deltas it has decoded
C22_UnreadableFileKeepsDefaults ==
  /\ [][UnreadableKeepsDefaults]_vars
  /\ [](startTotal = DefaultMeasurements.total =>
          /\ pc_d # "d_crashed"
          /\ \A i \in Channels : measurements.total[i] = sumDelta[i])

\* the file the parser rejects is still on disk, the stop signal is clear and
\* two changes have been decoded onto the defaults
C22_Witness ==
  /\ disk = BrokenFile
  /\ ~stopper
  /\ pc_d = "d_loop"
  /\ nChanged >= 2
  /\ startTotal = DefaultMeasurements.total
  /\ measurements.total[1] > 0
  /\ measurements.date = MaxTs

\* C23 as stated: whatever entries the loaded file lacks, every cycle in
\* which a change is detected completes: the decoder does not fail on the
\* missing key but goes on to publish the reading, with a total for each of
\* the five inputs
C23_MissingChannelStartsAtZero ==
  [][(pc_d = "d_decode" /\ pc_d' # "d_decode") =>
        /\ pc_d' \in {"d_loop", "d_publish"}
        /\ pc_d' = "d_publish" =>
             Channels \subseteq DOMAIN measurements'.total
    ]_vars

(* ------------------------ properties of the shutdown ----------------- *)

\* C24 as stated: once the workers' stop signal is set, the reader thread
\* eventually ends, wherever it was when the signal was set
C24_StopEndsReader == stopper ~> pc_r = "r_done"

\* C25 as stated: once the workers' stop signal is set, the decoder thread
\* eventually ends, whatever the state of the queue and of the connection
C25_StopEndsDecoder == stopper ~> pc_d \in {"d_done", "d_crashed"}

(* -------------------- properties of the drain loop -------------------- *)

\* a delivery attempt of the drain loop fails
DeliveryFails == pc_m = "m_publish" /\ pc_m' \in FailedPublish

\* the drain loop leaves the warning of a failed delivery
FailureLogged == pc_m \in FailedPublish /\ pc_m' # pc_m

\* the tuples taken from the queue so far
Dequeued == nenq - Len(queue)

\* what a failed delivery leaves alone, and where the loop goes after it
FailureDropsMessage ==
  /\ DeliveryFails \/ FailureLogged =>
        /\ queue' = queue
        /\ nenq' = nenq
        /\ connected_flag' = connected_flag
        /\ item' = <<>>
  /\ FailureLogged => pc_m' = "m_drain"
  /\ pc_m = "m_drain" /\ pc_m' # pc_m =>
        pc_m' = IF ~mqtt_stopper /\ connected_flag THEN "m_get" ELSE "m_check"

\* C26: every tuple the drain loop takes from the queue goes to the paho
\* client exactly once (the tuples taken are those published plus the one in
\* hand); a delivery that fails, by result code or by ValueError, puts nothing
\* back into the queue, leaves the connection flag as it is, and the loop goes
\* on with its condition and the next get
C26_FailedDeliveryIsDropped ==
  /\ [](Dequeued = npub + Len(item))
  /\ [][FailureDropsMessage]_vars

\* a delivery rejected with ValueError is being logged after an earlier
\* tuple went to the client, while a further tuple waits in the queue
C26_Witness == pc_m = "m_rejected" /\ npub >= 2 /\ Len(queue) > 0

(* ---------------------- properties of the reader ---------------------- *)

\* the reader left its loop and has not come back to it
ReaderEnding == {"r_finally", "r_done"}

\* the step in which readline returns the line that ends the simulation
EOFRead == pc_r = "r_read" /\ pc_r' = "r_finally" /\ nread' = nread + 1

\* what the reader does on EOF and after it has left its loop
ReaderEndsWithoutHandOff ==
  /\ EOFRead =>
        /\ ~PRODUCTION
        /\ stopper'
        /\ UNCHANGED <<trigger, telegram, handed, lastHanded>>
  /\ pc_r \in ReaderEnding =>
        /\ pc_r' \in ReaderEnding
        /\ handed' = handed
        /\ trigger' => trigger

\* C27: in simulation mode every line that starts with EOF takes the EOF
\* branch, in which the reader sets the stop signal and leaves its loop
\* without setting the trigger or handing off a telegram, then or later; and
\* whenever the reader thread has ended, by EOF, by seeing the stop signal or
\* by an exception of the read, the stop signal is set
C27_ReaderEndSetsStop ==
  /\ [](~PRODUCTION => \A line \in Lines : StartsWithEOF(line) => IsEOF(line))
  /\ [](pc_r = "r_done" => stopper)
  /\ [][ReaderEndsWithoutHandOff]_vars

\* the simulation ended by EOF after one telegram was handed off: every pass
\* of the loop read a line, and the counter of the last pass is what is left
\* in the telegram
C27_Witness ==
  /\ ~PRODUCTION
  /\ pc_r = "r_done"
  /\ stopper
  /\ counter = nread
  /\ Len(handed) >= 1
  /\ telegram # <<>>
  /\ telegram[Len(telegram)] = <<Str(counter)>>

(* ------------------ properties of a failing write --------------------- *)

\* the step attempts a physical write, and open() or yaml.dump raises
WriteFails == WriteAttempted /\ lastWrite' \in {"open_raised", "dump_raised"}

\* what the decoder holds after a step whose write failed: what the
\* statements around the write leave, the throttled write of a change cycle
\* coming after the date of the cycle is stored and before the raw vector
\* of the cycle is copied to the previous one
FailedWriteKeepsMemory ==
  WriteFails =>
    /\ measurements' = IF pc_d = "d_publish"
                          THEN [measurements EXCEPT !.date = ts]
                          ELSE measurements
    /\ measurements'.total = measurements.total
    /\ prev_all_values' = IF pc_d = "d_publish"
                             THEN all_values
                             ELSE prev_all_values
    /\ all_values' = all_values
    /\ write_counter' = IF pc_d = "d_publish" THEN 0 ELSE write_counter
    /\ stopper' = stopper
    /\ pc_d' = IF pc_d = "d_publish" THEN "d_loop" ELSE "d_done"

\* C28: a physical write that fails, the throttled one of a change cycle or
\* the final one, leaves the totals as they were and the date and the
\* previous raw vector as the cycle sets them whatever the write does, and
\* does not set the stop signal; after a throttled one the decoder is back
\* at its loop, after the final one it ends as it would have
C28_FailedWriteChangesNothing == [][FailedWriteKeepsMemory]_vars

\* the throttled write of the tenth change failed on open(), and the decoder
\* has since decoded and published an eleventh change onto the same totals
C28_Witness ==
  /\ lastWrite = "open_raised"
  /\ nWrites = 1
  /\ Len(events) = WriteInterval + 1
  /\ pc_d = "d_loop"
  /\ ~stopper
  /\ \A i \in Channels : measurements.total[i] = startTotal[i] + sumDelta[i]
  /\ measurements.total[1] > startTotal[1]

(* --------------- properties of the drain loop's guard ----------------- *)

\* the drain loop takes a tuple from the queue
TupleTaken == pc_m = "m_get" /\ pc_m' = "m_publish"

\* the drain loop hands the tuple it took to the paho client
TupleHanded == pc_m = "m_publish" /\ npub' = npub + 1

\* C29 as stated: whenever the drain loop takes a tuple from the queue, and
\* whenever it hands that tuple to the client, the connection flag is set,
\* however the disconnect callback interleaves with the loop
C29_DequeueOnlyWhileConnected ==
  [][TupleTaken \/ TupleHanded => connected_flag]_vars

(* ---------------- properties of the forced reconnect ------------------ *)

\* the main loop of run() decides to call reconnect()
ReconnectForced == pc_m = "m_check" /\ pc_m' = "m_reconnect"

\* the call of reconnect() is over, by return or by exception
AttemptOver == pc_m = "m_reconnect" /\ pc_m' = "m_loop"

\* a forced reconnect comes after a session and a full timeout without one,
\* and when it is over the next one is not due at once
ForcedReconnectTimed ==
  /\ ReconnectForced =>
        /\ nconnects >= 1
        /\ ~connected_flag
        /\ clock - disconnect_start_time > MQTT_CONNECTION_TIMEOUT
  /\ AttemptOver => ~ReconnectDue'

\* C30 as stated: reconnect() is called only when the client has been
\* flagged disconnected for more than 60 s since the current disconnected
\* period began, never before a first connection was accepted, and once a
\* call is over no further call is due before another timeout has passed
C30_ForcedReconnectOnlyAfterTimeout == [][ForcedReconnectTimed]_vars

(* ------------------ properties of the connectivity probe -------------- *)

\* a probe of the broker address fails in this step
ProbeFailed == pc_m = "m_probe" /\ nprobes' = nprobes + 1

\* the session is opened and the network loop started in this step
SessionOpened == session # "open" /\ session' = "open"

\* the thread moves on to connect_async only from a probe that succeeded,
\* the session is opened only from there, and a failed probe whose next delay
\* is within the ceiling leaves both stop signals and stays in the probe loop
ProbeBeforeConnect ==
  /\ pc_m # "m_connect" /\ pc_m' = "m_connect" =>
        pc_m = "m_probe" /\ ~ProbeFailed
  /\ SessionOpened => pc_m = "m_connect"
  /\ ProbeFailed /\ NextDelay(delay) <= DelayCeiling =>
        /\ pc_m' = "m_probe"
        /\ UNCHANGED <<stopper, mqtt_stopper, session>>

\* C31: the mqtt thread opens the session and starts the network loop only
\* after a connectivity probe has succeeded, and while no probe has succeeded
\* no session exists; a failed probe by itself only adds a wait and leads to
\* another probe, without setting a stop signal
C31_ProbeBeforeSessionOpen ==
  /\ [](pc_m \in {"m_new", "m_probe"} => session = "none")
  /\ [][ProbeBeforeConnect]_vars

\* two probes failed and were waited for, then one succeeded and the session
\* was opened, with no stop signal set
C31_Witness ==
  /\ session = "open"
  /\ nprobes = 2
  /\ waited = InitialDelay + NextDelay(InitialDelay)
  /\ ~stopper
  /\ ~mqtt_stopper

(* ------------------ properties of the telegram buffer ----------------- *)

\* a buffer of exactly the sequence counter and one line that matched the
\* telegram pattern
CompleteTelegram(t) ==
  /\ Len(t) = 2
  /\ Len(t[1]) = 1
  /\ IsDigits(t[1][1])
  /\ MatchesTelegram(t[2])

\* the decoder copies the shared buffer in this step
BufferCopied == pc_d = "d_copy" /\ pc_d' = "d_clear"

\* C32 as stated: whenever the trigger is set the shared buffer holds exactly
\* the counter and one line that matched the pattern
C32_TriggerMeansCompleteBuffer == trigger => CompleteTelegram(telegram)

\* the decoder copies only under a set trigger, and what it copies is a
\* complete telegram
CopiesCompleteTelegram ==
  BufferCopied => trigger /\ CompleteTelegram(telegram) /\ tcopy' = telegram

\* C32: while the trigger is set the shared buffer holds exactly the counter
\* and one line that matched the pattern, until the decoder has copied and
\* cleared it; between its clearing of the buffer and its clearing of the
\* trigger the buffer is empty under a set trigger. The decoder copies the
\* buffer only while the trigger is set, and what it goes on to decode is
\* never empty, counter-only or a line that failed the pattern
C32_CopiedBufferIsComplete ==
  /\ [](trigger /\ pc_d # "d_trigger" => CompleteTelegram(telegram))
  /\ [](trigger /\ pc_d = "d_trigger" => telegram = <<>>)
  /\ [](pc_d \in {"d_copy", "d_clear"} => trigger)
  /\ [](pc_d \in {"d_clear", "d_trigger", "d_decode"} =>
          CompleteTelegram(tcopy))
  /\ [][CopiesCompleteTelegram]_vars

\* the decoder has copied the second telegram and emptied the buffer, the
\* trigger is still set and the reader waits with the next line pending
C32_Witness ==
  /\ trigger
  /\ pc_d = "d_trigger"
  /\ telegram = <<>>
  /\ CompleteTelegram(tcopy)
  /\ Len(taken) = 2
  /\ pc_r = "r_wait"

(* ---------------- properties of the file against memory --------------- *)

\* the decoder has loaded the file an earlier run wrote, and the latest
\* physical write, if any, ended by a completed dump
LoadedAndWritten ==
  /\ pc_d # "d_start"
  /\ startTotal = [i \in Channels |-> MaxStart]
  /\ lastWrite \in {"none", "dumped"}

\* the totals the file holds are not ahead of the ones in memory
FileNotAhead ==
  /\ disk.present
  /\ YamlLoad(disk.data).ok
  /\ \A i \in Channels :
       YamlLoad(disk.data).value.total[i] <= measurements.total[i]

\* changes added to the totals in memory since the latest throttled write
Unsaved == nChanged - WriteInterval * nWrites

\* C33 as stated: after a successful load and without write failures the
\* file's totals are at most the totals in memory, and fewer than N changes
\* are missing from the file, in every state
C33_FewerThanIntervalUnsaved ==
  LoadedAndWritten /\ pc_d # "d_done" =>
    FileNotAhead /\ Unsaved < WriteInterval

\* C33: after a successful load and without write failures the file's totals
\* are at most the totals in memory; at most N changes are missing from the
\* file, N of them only while the cycle of the N-th change has updated the
\* totals and not yet written, fewer than N otherwise; and after the final
\* write the file holds the totals in memory
C33_AtMostIntervalUnsaved ==
  LoadedAndWritten =>
    /\ FileNotAhead
    /\ pc_d # "d_done" => Unsaved <= WriteInterval
    /\ pc_d \notin {"d_publish", "d_done"} => Unsaved < WriteInterval
    /\ pc_d = "d_publish" => Unsaved = write_counter + 1
    /\ pc_d = "d_done" =>
          YamlLoad(disk.data).value.total = measurements.total

\* the tenth change since the load is in the totals in memory and its cycle
\* has not yet published and written: the file still holds the loaded totals
C33_Witness ==
  /\ LoadedAndWritten
  /\ pc_d = "d_publish"
  /\ write_counter = WriteInterval - 1
  /\ Unsaved = WriteInterval
  /\ YamlLoad(disk.data).value.total = startTotal
  /\ measurements.total[1] > startTotal[1]

(* ----------------- properties of the status replay -------------------- *)

\* main is not inside a call of set_status: the three fields hold what the
\* latest call was given
StatusSettled ==
  pc_main \in {"main_version", "main_join", "main_stop", "main_offline",
               "main_sleep", "main_done"}

\* the i-th tuple of the queue is the status message put last
LastStatusAt(i) ==
  /\ queue[i].topic = StatusTopic
  /\ \A j \in (i + 1)..Len(queue) : queue[j].topic # StatusTopic

\* C34 as stated: once a call of set_status is over, the status message put
\* into the queue last carries the topic, payload and retain flag of that
\* call, however the connect callback interleaves with main
C34_LastStatusIsLatest ==
  StatusSettled =>
    \A i \in 1..Len(queue) :
      LastStatusAt(i) =>
        queue[i] = StatusMessage(StatusTopic, status_payload, status_retain)

====
